---- MODULE Spec2Model ----
(***************************************************************************)
(* Model of the GSD inference engine of the wind-turbine inspection tool:  *)
(* the metadata distance resolvers (lib/exiftool-utils.ts and              *)
(* app/api/upload/route.ts), the image validation (lib/image-validation.ts)*)
(* the distance interpolation estimator, the GSD calculators and the       *)
(* upload handler POST.                                                    *)
(*                                                                         *)
(* Numbers.  JavaScript numbers are modelled as integers counting          *)
(* hundredths (30 m is 3000, 0.1 m is 10, the focal length 12.29 mm is     *)
(* 1229).  NaN and Infinity are two integers outside the range of every    *)
(* other value; the comparison operators JsLt, JsGt, ... give them their   *)
(* IEEE meaning (every comparison with NaN is false).  A GSD in cm/pixel   *)
(* is counted in units of 0.0001 cm/pixel.                                 *)
(*                                                                         *)
(* Strings are TLA+ strings, read one character at a time with SubSeq; the *)
(* regular expressions of the source are matched character by character.   *)
(***************************************************************************)
EXTENDS Integers, Sequences, FiniteSets, TLC

(***************************************************************************)
(* JavaScript values                                                       *)
(***************************************************************************)
NaN == 0 - 2000000000
Infinity == 2000000000 + 0
NegInfinity == 0 - 1999999999

IsNaN(x) == x = NaN
IsFiniteNum(x) == x # NaN /\ x # Infinity /\ x # NegInfinity

JsLt(a, b) == a # NaN /\ b # NaN /\ a < b
JsGt(a, b) == a # NaN /\ b # NaN /\ a > b
JsLe(a, b) == a # NaN /\ b # NaN /\ a <= b
JsGe(a, b) == a # NaN /\ b # NaN /\ a >= b

\* one hundredth is the unit of every modelled number
Scale == 10 * 10

Undefined == [t |-> "undefined", s |-> "", n |-> 0]
Str(str) == [t |-> "string", s |-> str, n |-> 0]
Num(num) == [t |-> "number", s |-> "", n |-> num]

\* JavaScript truthiness of a metadata value
Truthy(v) ==
    \/ v.t = "string" /\ v.s # ""
    \/ v.t = "number" /\ v.n # 0 /\ v.n # NaN

(***************************************************************************)
(* The metadata values of the model                                        *)
(***************************************************************************)
\* what exiftool may report for a comment tag and for a distance tag
CommentValues ==
    { Str("distance: 42m"), Str("Distance: 500 m"), Str("dist 0 5m away"),
      Str("range=1000m"), Str("blade: 0.1m"), Str("200m"), Str("dist: ."),
      Str("no data"), Num(42 * Scale) }

NumericValues ==
    { Num(30 * Scale), Num(0), Num(Scale \div 2), Num(100 * Scale),
      Num(1000 * Scale), Str("30"), Str("n/a") }

\* every value a distance-related tag takes in the model
TagValues ==
    CommentValues \cup NumericValues
    \cup {Undefined, Str("distance: 150 meters")}

(***************************************************************************)
(* Characters                                                              *)
(***************************************************************************)
Ch(str, i) == IF i >= 1 /\ i <= Len(str) THEN SubSeq(str, i, i) ELSE ""

Digits == {"0", "1", "2", "3", "4", "5", "6", "7", "8", "9"}

DigitVal(c) ==
    CASE c = "0" -> 0 [] c = "1" -> 1 [] c = "2" -> 2 [] c = "3" -> 3
      [] c = "4" -> 4 [] c = "5" -> 5 [] c = "6" -> 6 [] c = "7" -> 7
      [] c = "8" -> 8 [] c = "9" -> 9

IsDigit(c) == c \in Digits
IsDigitOrDot(c) == c \in Digits \cup {"."}
IsSpace(c) == c \in {" ", "\t", "\n", "\r"}

\* String.prototype.toLowerCase, one character
LowerChar(c) ==
    CASE c = "A" -> "a" [] c = "B" -> "b" [] c = "C" -> "c" [] c = "D" -> "d"
      [] c = "E" -> "e" [] c = "F" -> "f" [] c = "G" -> "g" [] c = "H" -> "h"
      [] c = "I" -> "i" [] c = "J" -> "j" [] c = "K" -> "k" [] c = "L" -> "l"
      [] c = "M" -> "m" [] c = "N" -> "n" [] c = "O" -> "o" [] c = "P" -> "p"
      [] c = "Q" -> "q" [] c = "R" -> "r" [] c = "S" -> "s" [] c = "T" -> "t"
      [] c = "U" -> "u" [] c = "V" -> "v" [] c = "W" -> "w" [] c = "X" -> "x"
      [] c = "Y" -> "y" [] c = "Z" -> "z" [] OTHER -> c

\* the lower-case literal lit stands at position i of str (flag /i)
LitAt(str, i, lit) ==
    \A k \in 1..Len(lit) : LowerChar(Ch(str, i + k - 1)) = Ch(lit, k)

\* String.prototype.includes applied to str.toLowerCase()
LowerIncludes(str, lit) ==
    \E i \in 1..(Len(str) + 1) : LitAt(str, i, lit)

\* end of the longest run of white space, digits-or-dots, digits from i
RECURSIVE SkipSpaces(_, _)
SkipSpaces(str, i) ==
    IF IsSpace(Ch(str, i)) THEN SkipSpaces(str, i + 1) ELSE i

RECURSIVE SkipDigitsDots(_, _)
SkipDigitsDots(str, i) ==
    IF IsDigitOrDot(Ch(str, i)) THEN SkipDigitsDots(str, i + 1) ELSE i

RECURSIVE SkipDigits(_, _)
SkipDigits(str, i) ==
    IF IsDigit(Ch(str, i)) THEN SkipDigits(str, i + 1) ELSE i

\* String.prototype.trim() is not empty
TrimNonEmpty(str) == \E i \in 1..Len(str) : ~IsSpace(Ch(str, i))

(***************************************************************************)
(* parseFloat: optional white space, optional sign, digits, optional dot   *)
(* and digits; NaN when no digit is read.  The value is counted in         *)
(* hundredths, so digits after the second decimal are dropped.             *)
(***************************************************************************)
RECURSIVE DigitsValue(_, _, _, _)
DigitsValue(str, i, j, acc) ==
    IF i >= j THEN acc
    ELSE DigitsValue(str, i + 1, j, acc * 10 + DigitVal(Ch(str, i)))

\* the value of the digits of str[b..c-1], the dot at c when d > c and the
\* fraction digits up to d - 1
FloatValue(str, neg, b, c, d) ==
    LET f1 == IF d > c + 1 THEN DigitVal(Ch(str, c + 1)) ELSE 0
        f2 == IF d > c + 2 THEN DigitVal(Ch(str, c + 2)) ELSE 0
        mag == DigitsValue(str, b, c, 0) * Scale + f1 * 10 + f2
    IN  IF c = b /\ d <= c + 1 THEN NaN ELSE IF neg THEN 0 - mag ELSE mag

\* the digits end at c: an optional dot and more digits
FloatFraction(str, neg, b, c) ==
    FloatValue(str, neg, b, c,
               IF Ch(str, c) = "." THEN SkipDigits(str, c + 1) ELSE c)

\* the sign, if any, stands at a
FloatSigned(str, a, b) ==
    FloatFraction(str, Ch(str, a) = "-", b, SkipDigits(str, b))

FloatFrom(str, a) ==
    FloatSigned(str, a, IF Ch(str, a) \in {"-", "+"} THEN a + 1 ELSE a)

ParseFloatStr(str) == FloatFrom(str, SkipSpaces(str, 1))

\* parseFloat of a metadata value (a number is converted to text and back)
ParseFloat(v) ==
    CASE v.t = "number" -> v.n
      [] v.t = "string" -> ParseFloatStr(v.s)
      [] OTHER -> NaN

(***************************************************************************)
(* Regular expressions.  A match is [ok, cap]: cap is capture group 1.     *)
(* String.prototype.match without the g flag returns the leftmost match.   *)
(***************************************************************************)
NoMatch == [ok |-> FALSE, cap |-> ""]
Matched(str, b, e) == [ok |-> TRUE, cap |-> SubSeq(str, b, e - 1)]

MinOf(S) == CHOOSE x \in S : \A y \in S : x <= y

\* the leftmost position at which the pattern P matches
FirstMatch(str, P(_, _)) ==
    LET hits == {i \in 1..(Len(str) + 1) : P(str, i).ok}
    IN  IF hits = {} THEN NoMatch ELSE P(str, MinOf(hits))

\* (?:a|b|c) followed by Rest: the first alternative, in order, after
\* which Rest matches
AltThen(str, i, alts, Rest(_, _)) ==
    LET hits == {k \in 1..Len(alts) :
                    LitAt(str, i, alts[k]) /\ Rest(str, i + Len(alts[k])).ok}
    IN  IF hits = {} THEN NoMatch
        ELSE Rest(str, i + Len(alts[MinOf(hits)]))

\* some alternative of (?:a|b|c) stands at i
AnyLitAt(str, i, alts) == \E k \in 1..Len(alts) : LitAt(str, i, alts[k])

\* m(?:eter)?s?\s* from i: the position after it, 0 when there is no "m"
UnitEnd(str, i) ==
    IF ~LitAt(str, i, "m") THEN 0
    ELSE LET a == i + 1
             b == IF LitAt(str, a, "eter") THEN a + 4 ELSE a
             c == IF LitAt(str, b, "s") THEN b + 1 ELSE b
         IN  SkipSpaces(str, c)

\* ---- lib/exiftool-utils.ts, findDistanceInExif -------------------------
\* [:=]?\s*([\d.]+)  (the optional tail \s*m?(?:eter)?s? always matches)
ReadTail(str, j) ==
    LET a == IF Ch(str, j) \in {":", "="} THEN j + 1 ELSE j
        b == SkipSpaces(str, a)
        c == SkipDigitsDots(str, b)
    IN  IF c > b THEN Matched(str, b, c) ELSE NoMatch

\* /(?:distance|range|dist)[:=]?\s*([\d.]+)\s*m?(?:eter)?s?/i
ReadPattern1At(str, i) ==
    AltThen(str, i, <<"distance", "range", "dist">>, ReadTail)

\* /([\d.]+)\s*m(?:eter)?s?\s*(?:distance|range|to|away)/i
ReadPattern2At(str, i) ==
    LET c == SkipDigitsDots(str, i)
        u == UnitEnd(str, SkipSpaces(str, c))
    IN  IF c > i /\ u > 0
           /\ AnyLitAt(str, u, <<"distance", "range", "to", "away">>)
        THEN Matched(str, i, c) ELSE NoMatch

\* /(?:blade|subject|target)[:=]?\s*([\d.]+)\s*m?/i
ReadPattern3At(str, i) ==
    AltThen(str, i, <<"blade", "subject", "target">>, ReadTail)

\* /^([\d.]+)\s*m$/i
ReadPattern4(str) ==
    LET c == SkipDigitsDots(str, 1)
        d == SkipSpaces(str, c)
    IN  IF c > 1 /\ LitAt(str, d, "m") /\ d = Len(str)
        THEN Matched(str, 1, c) ELSE NoMatch

\* the patterns array of findDistanceInExif applied to one string
ReadPatterns(str) ==
    << FirstMatch(str, ReadPattern1At), FirstMatch(str, ReadPattern2At),
       FirstMatch(str, ReadPattern3At), ReadPattern4(str) >>

\* ---- app/api/upload/route.ts, extractBladeDistance ---------------------
\* (\d+\.?\d*) from i: the position after it, 0 when no digit stands at i
NumberEnd(str, i) ==
    LET a == SkipDigits(str, i)
    IN  IF a = i THEN 0
        ELSE IF Ch(str, a) = "." THEN SkipDigits(str, a + 1) ELSE a

RECURSIVE SkipSeparators(_, _)
SkipSeparators(str, i) ==
    IF Ch(str, i) \in {":", "="} \/ IsSpace(Ch(str, i))
    THEN SkipSeparators(str, i + 1) ELSE i

\* [:=\s]*(\d+\.?\d*)\s*m
UploadTail(str, j) ==
    LET b == SkipSeparators(str, j)
        c == NumberEnd(str, b)
    IN  IF c > 0 /\ LitAt(str, SkipSpaces(str, c), "m")
        THEN Matched(str, b, c) ELSE NoMatch

\* /(?:distance|dist|range)[:=\s]*(\d+\.?\d*)\s*m(?:eter)?s?/i
UploadPattern1At(str, i) ==
    AltThen(str, i, <<"distance", "dist", "range">>, UploadTail)

\* /(\d+\.?\d*)\s*m(?:eter)?s?\s*(?:distance|dist|range|to|away)/i
UploadPattern2At(str, i) ==
    LET c == NumberEnd(str, i)
        u == IF c > 0 THEN UnitEnd(str, SkipSpaces(str, c)) ELSE 0
    IN  IF u > 0
           /\ AnyLitAt(str, u, <<"distance", "dist", "range", "to", "away">>)
        THEN Matched(str, i, c) ELSE NoMatch

\* /(?:blade|subject|target)[:=\s]*(\d+\.?\d*)\s*m/i
UploadPattern3At(str, i) ==
    AltThen(str, i, <<"blade", "subject", "target">>, UploadTail)

\* /^(\d+\.?\d*)\s*m$/i
UploadPattern4(str) ==
    LET c == NumberEnd(str, 1)
        d == SkipSpaces(str, c)
    IN  IF c > 0 /\ LitAt(str, d, "m") /\ d = Len(str)
        THEN Matched(str, 1, c) ELSE NoMatch

\* /(\d+\.?\d*)\s*meters?\s*(?:to|from|away)/i
UploadPattern5At(str, i) ==
    LET c == NumberEnd(str, i)
        d == SkipSpaces(str, c)
        e == IF LitAt(str, d + 5, "s") THEN d + 6 ELSE d + 5
    IN  IF c > 0 /\ LitAt(str, d, "meter")
           /\ AnyLitAt(str, SkipSpaces(str, e), <<"to", "from", "away">>)
        THEN Matched(str, i, c) ELSE NoMatch

\* the patterns array of extractBladeDistance applied to one string
UploadPatterns(str) ==
    << FirstMatch(str, UploadPattern1At), FirstMatch(str, UploadPattern2At),
       FirstMatch(str, UploadPattern3At), UploadPattern4(str),
       FirstMatch(str, UploadPattern5At) >>

(***************************************************************************)
(* The metadata distance resolvers.  A resolution is                       *)
(* [distance, source, confidence]; raw_value is not modelled.              *)
(***************************************************************************)
NotFound == [distance |-> 0, source |-> "not_found", confidence |-> "low"]

\* lib/exiftool-utils.ts: distanceFields, in priority order
distanceFields ==
    << [field |-> "UserComment", confidence |-> "high"],
       [field |-> "EXIF:UserComment", confidence |-> "high"],
       [field |-> "ImageDescription", confidence |-> "high"],
       [field |-> "XMP:Description", confidence |-> "high"],
       [field |-> "Comments", confidence |-> "high"],
       [field |-> "SubjectDistance", confidence |-> "medium"],
       [field |-> "EXIF:SubjectDistance", confidence |-> "medium"],
       [field |-> "Composite:SubjectDistance", confidence |-> "medium"],
       [field |-> "XMP:SubjectDistance", confidence |-> "medium"],
       [field |-> "FocusDistance", confidence |-> "low"],
       [field |-> "HyperfocalDistance", confidence |-> "low"] >>

\* distanceFields.slice(0, 5) and distanceFields.slice(5)
ReadTextCount == 5

\* a variant that accepts 1000 m itself: C5 does not hold of it
ReadInRangeInclusive(d) == ~IsNaN(d) /\ JsGt(d, 0) /\ JsLe(d, 1000 * Scale)

\* !isNaN(distance) && distance > 0 && distance < 1000
ReadInRange(d) == ~IsNaN(d) /\ JsGt(d, 0) /\ JsLt(d, 1000 * Scale)

\* the loop over the patterns of one text field: the first pattern, from
\* the k-th on, that matches with an accepted distance; 0 when none does
RECURSIVE ReadPatternLoop(_, _)
ReadPatternLoop(ms, k) ==
    IF k > Len(ms) THEN 0
    ELSE IF ms[k].ok /\ ReadInRange(ParseFloatStr(ms[k].cap))
         THEN ParseFloatStr(ms[k].cap)
         ELSE ReadPatternLoop(ms, k + 1)

\* the distance findDistanceInExif takes from one text value
ReadTextDistance(v) ==
    IF v.t = "string" THEN ReadPatternLoop(ReadPatterns(v.s), 1) ELSE 0

\* ReadTextDistance of the values of the model, evaluated once
ReadTextTable == [v \in TagValues |-> ReadTextDistance(v)]
ReadTextDistanceOf(v) == ReadTextTable[v]

\* typeof value === "number" && value > 0 && value < 1000
ReadNumberAccepted(v) ==
    v.t = "number" /\ JsGt(v.n, 0) /\ JsLt(v.n, 1000 * Scale)

\* the two for loops of findDistanceInExif, from field f on
RECURSIVE ReadFieldLoop(_, _)
ReadFieldLoop(exif, f) ==
    IF f > Len(distanceFields) THEN NotFound
    ELSE LET e == distanceFields[f]
             v == exif[e.field]
         IN  IF f <= ReadTextCount
             THEN IF ReadTextDistanceOf(v) # 0
                  THEN [distance |-> ReadTextDistanceOf(v), source |-> e.field,
                        confidence |-> e.confidence]
                  ELSE ReadFieldLoop(exif, f + 1)
             ELSE IF ReadNumberAccepted(v)
                  THEN [distance |-> v.n, source |-> e.field,
                        confidence |-> e.confidence]
                  ELSE ReadFieldLoop(exif, f + 1)

findDistanceInExif(exif) == ReadFieldLoop(exif, 1)

\* app/api/upload/route.ts: userCommentFields and subjectDistanceFields
userCommentFields ==
    << "EXIF:UserComment", "UserComment", "Comment", "XMP:UserComment",
       "IPTC:SpecialInstructions", "ImageDescription", "XMP:Description" >>

subjectDistanceFields ==
    << "EXIF:SubjectDistance", "SubjectDistance", "Camera:SubjectDistance" >>

\* !isNaN(distance) && distance > 0.1 && distance < 200
UploadCommentInRange(d) ==
    ~IsNaN(d) /\ JsGt(d, Scale \div 10) /\ JsLt(d, 200 * Scale)

\* distance > 0.5 && distance < 100
UploadSubjectInRange(d) == JsGt(d, Scale \div 2) /\ JsLt(d, 100 * Scale)

RECURSIVE UploadPatternLoop(_, _)
UploadPatternLoop(ms, k) ==
    IF k > Len(ms) THEN 0
    ELSE IF ms[k].ok /\ UploadCommentInRange(ParseFloatStr(ms[k].cap))
         THEN ParseFloatStr(ms[k].cap)
         ELSE UploadPatternLoop(ms, k + 1)

\* userComment && typeof userComment === "string" && userComment.trim()
UploadTextDistance(v) ==
    IF Truthy(v) /\ v.t = "string" /\ TrimNonEmpty(v.s)
    THEN UploadPatternLoop(UploadPatterns(v.s), 1) ELSE 0

\* UploadTextDistance of the values of the model, evaluated once
UploadTextTable == [v \in TagValues |-> UploadTextDistance(v)]
UploadTextDistanceOf(v) == UploadTextTable[v]

\* subjectDistance && !isNaN(parseFloat(subjectDistance)), then the range
UploadSubjectAccepted(v) ==
    Truthy(v) /\ ~IsNaN(ParseFloat(v)) /\ UploadSubjectInRange(ParseFloat(v))

RECURSIVE UploadSubjectLoop(_, _)
UploadSubjectLoop(exif, f) ==
    IF f > Len(subjectDistanceFields) THEN NotFound
    ELSE LET v == exif[subjectDistanceFields[f]]
         IN  IF UploadSubjectAccepted(v)
             THEN [distance |-> ParseFloat(v),
                   source |-> subjectDistanceFields[f],
                   confidence |-> "medium"]
             ELSE UploadSubjectLoop(exif, f + 1)

RECURSIVE UploadCommentLoop(_, _)
UploadCommentLoop(exif, f) ==
    IF f > Len(userCommentFields) THEN UploadSubjectLoop(exif, 1)
    ELSE LET v == exif[userCommentFields[f]]
         IN  IF UploadTextDistanceOf(v) # 0
             THEN [distance |-> UploadTextDistanceOf(v),
                   source |-> userCommentFields[f], confidence |-> "high"]
             ELSE UploadCommentLoop(exif, f + 1)

extractBladeDistance(exif) == UploadCommentLoop(exif, 1)

(***************************************************************************)
(* lib/image-validation.ts.  An image is [blade, side, gsd] with gsd =      *)
(* [gsd_cm_per_pixel, flight_height, distance_to_blade, distance_source,   *)
(* distance_confidence].  gsd_cm_per_pixel counts 0.0001 cm/pixel; errors,  *)
(* warnings and issues are sequences of tags (the message texts and the    *)
(* suggestions are not modelled).                                          *)
(***************************************************************************)
GsdScale == Scale * Scale

\* 0.001 and 50 cm/pixel
GsdMin == GsdScale \div 1000
GsdMax == 50 * GsdScale

\* 0.5 m and 100 m
BladeDistanceMin == Scale \div 2
BladeDistanceMax == 100 * Scale

\* !image.gsd || !image.gsd.gsd_cm_per_pixel || image.gsd.gsd_cm_per_pixel <= 0
NoValidGsd(image) ==
    \/ image.gsd.gsd_cm_per_pixel = 0
    \/ IsNaN(image.gsd.gsd_cm_per_pixel)
    \/ JsLe(image.gsd.gsd_cm_per_pixel, 0)

\* gsd < 0.001 || gsd > 50
GsdUnusual(g) == JsLt(g, GsdMin) \/ JsGt(g, GsdMax)

\* a variant that knows the XMP tag alone: C1 does not hold of it
UsesFocusXmpOnly(source) == source = "XMP:FocusDistance"

\* source.toLowerCase().includes("focus")
UsesFocus(source) == LowerIncludes(source, "focus")

\* the body of images.forEach in validateTurbineImages: errors of one image
ImageErrors(image) ==
    IF NoValidGsd(image) THEN << "no_valid_gsd" >>
    ELSE IF \/ image.gsd.distance_source = "XMP:FocusDistance"
            \/ image.gsd.distance_source = "FocusDistance"
            \/ UsesFocus(image.gsd.distance_source)
         THEN << "focus_distance" >>
         ELSE << >>

\* the body of images.forEach: warnings of one image
ImageWarnings(image) ==
    IF NoValidGsd(image) THEN << >>
    ELSE (IF GsdUnusual(image.gsd.gsd_cm_per_pixel)
          THEN << "unusual_gsd" >> ELSE << >>)
         \o (IF image.gsd.distance_confidence = "low"
             THEN << "low_confidence" >> ELSE << >>)
         \o (IF \/ JsLt(image.gsd.distance_to_blade, BladeDistanceMin)
                \/ JsGt(image.gsd.distance_to_blade, BladeDistanceMax)
             THEN << "unusual_distance" >> ELSE << >>)

\* the image is counted in validForMeasurement and gsdValues
CountsForMeasurement(image) ==
    ~NoValidGsd(image) /\ ~GsdUnusual(image.gsd.gsd_cm_per_pixel)

\* the concatenation of a sequence of sequences
RECURSIVE Flatten(_, _)
Flatten(seqs, i) ==
    IF i > Len(seqs) THEN << >> ELSE seqs[i] \o Flatten(seqs, i + 1)

\* what the forEach body F pushes, image after image
FlatMap(images, F(_)) ==
    Flatten([i \in 1..Len(images) |-> F(images[i])], 1)

validateTurbineImages(images) ==
    IF Len(images) = 0
    THEN [isValid |-> FALSE, errors |-> << "no_images" >>, warnings |-> << >>,
          validForMeasurement |-> 0]
    ELSE LET valid == {i \in 1..Len(images) : CountsForMeasurement(images[i])}
             gsds == {images[i].gsd.gsd_cm_per_pixel : i \in valid}
             gmin == CHOOSE g \in gsds : \A h \in gsds : g <= h
             gmax == CHOOSE g \in gsds : \A h \in gsds : g >= h
             focus == {i \in 1..Len(images) :
                          UsesFocus(images[i].gsd.distance_source)}
             errors == FlatMap(images, ImageErrors)
                       \o (IF focus # {} THEN << "focus_images" >> ELSE << >>)
             warnings == FlatMap(images, ImageWarnings)
                         \o (IF gsds # {} /\ gmax > 10 * gmin
                             THEN << "gsd_variation" >> ELSE << >>)
         IN  [isValid |-> Len(errors) = 0 /\ Cardinality(valid) > 0,
              errors |-> errors, warnings |-> warnings,
              validForMeasurement |-> Cardinality(valid)]

GsdQuality(g) ==
    IF GsdUnusual(g) THEN "unusable"
    ELSE IF JsGt(g, 10 * GsdScale) THEN "poor"
    ELSE IF JsLt(g, GsdScale \div 100) THEN "excellent"
    ELSE IF JsLt(g, GsdScale \div 10) THEN "good"
    ELSE "poor"

validateSingleImage(image) ==
    IF NoValidGsd(image)
    THEN [canMeasure |-> FALSE, issues |-> << "no_valid_gsd" >>,
          gsdQuality |-> "unusable"]
    ELSE LET g == image.gsd.gsd_cm_per_pixel
             focus == UsesFocus(image.gsd.distance_source)
             issues ==
                 (IF focus THEN << "focus_distance" >> ELSE << >>)
                 \o (IF JsLt(image.gsd.distance_to_blade, BladeDistanceMin)
                     THEN << "too_close" >>
                     ELSE IF JsGt(image.gsd.distance_to_blade, BladeDistanceMax)
                          THEN << "too_far" >> ELSE << >>)
                 \o (IF GsdUnusual(g) THEN << "unrealistic_gsd" >>
                     ELSE IF JsGt(g, 10 * GsdScale) THEN << "low_resolution" >>
                     ELSE << >>)
                 \o (IF image.gsd.distance_confidence = "low"
                     THEN << "low_confidence" >> ELSE << >>)
         IN  [canMeasure |-> \/ Len(issues) = 0
                             \/ GsdQuality(g) # "unusable" /\ ~focus,
              issues |-> issues, gsdQuality |-> GsdQuality(g)]

\* images.filter(...) keeps the order of the images
Filter(images, Keep(_)) ==
    Flatten([i \in 1..Len(images) |->
                IF Keep(images[i]) THEN << images[i] >> ELSE << >>], 1)

MeasurementReady(image) ==
    /\ validateSingleImage(image).canMeasure
    /\ validateSingleImage(image).gsdQuality # "unusable"

getMeasurementReadyImages(images) == Filter(images, MeasurementReady)

NeedsReprocessing(image) == UsesFocus(image.gsd.distance_source)

getImagesNeedingReprocessing(images) == Filter(images, NeedsReprocessing)

(***************************************************************************)
(* The GSD calculators.  Sensor sizes, focal lengths and distances count   *)
(* hundredths; image sizes count pixels; every result counts 0.0001        *)
(* cm/pixel (the width and height GSD, metres per pixel in the source, are *)
(* kept in the same unit).                                                 *)
(***************************************************************************)
\* floor(a * b / c) for c > 0 without an intermediate product above 2^31
MulDiv(a, b, c) == (a \div c) * b + ((a % c) * b) \div c

\* 100 * (sensor * distance) / (focal * pixels), in cm/pixel
GsdPerPixel(sensor, distance, focal, pixels) ==
    IF IsNaN(focal) \/ IsNaN(distance) THEN NaN
    ELSE IF focal = 0
         THEN (IF distance > 0 THEN Infinity
               ELSE IF distance < 0 THEN NegInfinity ELSE NaN)
    ELSE MulDiv((sensor * distance * 100) \div focal, 100, pixels)

\* (a + b) / 2
Average(a, b) ==
    IF IsNaN(a) \/ IsNaN(b) THEN NaN
    ELSE IF a = Infinity \/ b = Infinity THEN Infinity
    ELSE IF a = NegInfinity \/ b = NegInfinity THEN NegInfinity
    ELSE (a + b) \div 2

\* lib/image-validation.ts
calculateGSD(focalLengthMm, distanceToSubjectM, sensorWidthMm, sensorHeightMm, imageWidthPx, imageHeightPx) ==
    LET w == GsdPerPixel(sensorWidthMm, distanceToSubjectM, focalLengthMm,
                         imageWidthPx)
        h == GsdPerPixel(sensorHeightMm, distanceToSubjectM, focalLengthMm,
                         imageHeightPx)
    IN  [threw |-> "no", gsd_width |-> w, gsd_height |-> h,
         gsd_cm_per_pixel |-> Average(w, h)]

\* blade geometry utilities
calculateEstimatedGSD(distanceToBladeM, focalLengthMm, sensorWidthMm, sensorHeightMm, imageWidthPx, imageHeightPx) ==
    LET w == GsdPerPixel(sensorWidthMm, distanceToBladeM, focalLengthMm,
                         imageWidthPx)
        h == GsdPerPixel(sensorHeightMm, distanceToBladeM, focalLengthMm,
                         imageHeightPx)
    IN  [threw |-> "no", gsd_width |-> w, gsd_height |-> h,
         gsd_cm_per_pixel |-> Average(w, h)]

\* a || b || c: the first truthy value, else the last operand
FirstTruthy(vals) ==
    LET hits == {k \in 1..Len(vals) : Truthy(vals[k])}
    IN  IF hits = {} THEN vals[Len(vals)] ELSE vals[MinOf(hits)]

\* focalLengthRaw.match(/([\d.]+)/): the leftmost run of digits and dots
FocalRunAt(str, i) ==
    IF IsDigitOrDot(Ch(str, i))
    THEN Matched(str, i, SkipDigitsDots(str, i)) ELSE NoMatch

DefaultFocalLength == 1229

\* app/api/upload/route.ts, getCameraSpecs; make and model are strings
getCameraSpecs(make, model, exif) ==
    LET raw == FirstTruthy(<< exif["EXIF:FocalLength"], exif["FocalLength"],
                              exif["Camera:FocalLength"], Str("12.29 mm") >>)
        m == FirstMatch(raw.s, FocalRunAt)
        focalLength ==
            IF raw.t = "string"
            THEN (IF m.ok THEN ParseFloatStr(m.cap) ELSE DefaultFocalLength)
            ELSE IF raw.t = "number" THEN raw.n ELSE DefaultFocalLength
        dji == LowerIncludes(make, "dji")
    IN  IF dji /\ (LowerIncludes(model, "m3e")
                   \/ LowerIncludes(model, "mavic 3 enterprise"))
        THEN [focal_length |-> focalLength, sensor_width |-> 1730,
              sensor_height |-> 1300]
        ELSE IF dji /\ (LowerIncludes(model, "m3")
                        \/ LowerIncludes(model, "mavic 3"))
        THEN [focal_length |-> focalLength, sensor_width |-> 1730,
              sensor_height |-> 1300]
        ELSE IF dji /\ (LowerIncludes(model, "mini")
                        \/ LowerIncludes(model, "m2"))
        THEN [focal_length |-> focalLength, sensor_width |-> 617,
              sensor_height |-> 455]
        ELSE IF dji /\ LowerIncludes(model, "air")
        THEN [focal_length |-> focalLength, sensor_width |-> 640,
              sensor_height |-> 480]
        ELSE [focal_length |-> focalLength, sensor_width |-> 1730,
              sensor_height |-> 1300]

\* altitudeData.toString().replace(/[^\d.-]/g, "")
RECURSIVE StripNonNumeric(_, _)
StripNonNumeric(str, i) ==
    IF i > Len(str) THEN ""
    ELSE (IF IsDigitOrDot(Ch(str, i)) \/ Ch(str, i) = "-"
          THEN Ch(str, i) ELSE "")
         \o StripNonNumeric(str, i + 1)

\* parseFloat(altitudeData.toString().replace(/[^\d.-]/g, "")) || 0
AltitudeAboveGround(exif) ==
    LET raw == FirstTruthy(<< exif["XMP:RelativeAltitude"],
                              exif["RelativeAltitude"],
                              exif["GPS:GPSAltitude"], exif["GPSAltitude"],
                              Str("0") >>)
        parsed == IF raw.t = "number" THEN raw.n
                  ELSE ParseFloatStr(StripNonNumeric(raw.s, 1))
    IN  IF IsNaN(parsed) THEN 0 ELSE parsed

\* exifData["EXIF:Make"] || exifData.Make || "DJI", and the same for Model
MakeOf(exif) == FirstTruthy(<< exif["EXIF:Make"], exif["Make"], Str("DJI") >>)
ModelOf(exif) == FirstTruthy(<< exif["EXIF:Model"], exif["Model"], Str("M3E") >>)

(***************************************************************************)
(* app/api/upload/route.ts, calculateDistanceStatistics                    *)
(***************************************************************************)
\* [...validDistances].sort((a, b) => a - b)
RECURSIVE InsertSorted(_, _)
InsertSorted(sorted, x) ==
    IF sorted = << >> THEN << x >>
    ELSE IF x < Head(sorted) THEN << x >> \o sorted
    ELSE << Head(sorted) >> \o InsertSorted(Tail(sorted), x)

RECURSIVE SortAscending(_)
SortAscending(seq) ==
    IF seq = << >> THEN << >>
    ELSE InsertSorted(SortAscending(SubSeq(seq, 1, Len(seq) - 1)),
                      seq[Len(seq)])

RECURSIVE Sum(_)
Sum(seq) == IF seq = << >> THEN 0 ELSE Head(seq) + Sum(Tail(seq))

RECURSIVE Gcd(_, _)
Gcd(a, b) == IF b = 0 THEN a ELSE Gcd(b, a % b)

RECURSIVE GcdAll(_)
GcdAll(seq) == IF seq = << >> THEN 0 ELSE Gcd(Head(seq), GcdAll(Tail(seq)))

\* stdDev < meanDistance * 0.1 for positive distances, decided exactly:
\* sqrt(sum((d - mean)^2) / n) < mean / 10 is 100 * n * sum(d^2) < 101 *
\* sum(d)^2; the distances are first divided by their common divisor,
\* which changes neither side's order
LowVariation(distances) ==
    LET g == GcdAll(distances)
        ds == [i \in 1..Len(distances) |-> distances[i] \div g]
        squares == [i \in 1..Len(ds) |-> ds[i] * ds[i]]
    IN  100 * Len(ds) * Sum(squares) < 101 * Sum(ds) * Sum(ds)

\* img.gsd?.distance_to_blade > 0 && img.gsd?.distance_confidence !== "low"
UsableDistance(img) ==
    /\ JsGt(img.gsd.distance_to_blade, 0)
    /\ img.gsd.distance_confidence # "low"

\* a variant that compares the blade and not the side: C10 does not hold
\* of it
RelevantImagesAnySide(images, blade, side) ==
    LET same(img) == img.blade = blade /\ UsableDistance(img)
        sameBladeImages == Filter(images, same)
    IN  IF Len(sameBladeImages) >= 3 THEN sameBladeImages
        ELSE Filter(images, UsableDistance)

\* the images the estimator takes its distances from
RelevantImages(images, blade, side) ==
    LET same(img) == img.blade = blade /\ img.side = side /\ UsableDistance(img)
        sameBladeImages == Filter(images, same)
    IN  IF Len(sameBladeImages) >= 3 THEN sameBladeImages
        ELSE Filter(images, UsableDistance)

\* a variant that takes the lower of the two central values: C11 does not
\* hold of it
MedianLowerMiddle(sortedDistances) ==
    sortedDistances[(Len(sortedDistances) + 1) \div 2]

\* sortedDistances[Math.floor(sortedDistances.length / 2)], the index
\* counted from 0
MedianOf(sortedDistances) ==
    sortedDistances[(Len(sortedDistances) \div 2) + 1]

\* a variant that asks for 5 samples and no more: C12 does not hold of it
StatisticsConfidenceByCount(validDistances) ==
    IF Len(validDistances) >= 5 THEN "high"
    ELSE IF Len(validDistances) < 3 THEN "low"
    ELSE "medium"

\* the confidence of a non-empty sample
StatisticsConfidence(validDistances) ==
    IF Len(validDistances) >= 5
    THEN (IF LowVariation(validDistances) THEN "high" ELSE "medium")
    ELSE IF Len(validDistances) < 3 THEN "low"
    ELSE "medium"

\* meanDistance is rounded down to a hundredth
calculateDistanceStatistics(images, blade, side) ==
    LET relevantImages == RelevantImages(images, blade, side)
        validDistances == [i \in 1..Len(relevantImages) |->
                              relevantImages[i].gsd.distance_to_blade]
        sortedDistances == SortAscending(validDistances)
    IN  IF Len(validDistances) = 0
        THEN [meanDistance |-> 0, medianDistance |-> 0,
              validDistances |-> << >>, confidence |-> "low"]
        ELSE [meanDistance |-> Sum(validDistances) \div Len(validDistances),
              medianDistance |-> MedianOf(sortedDistances),
              validDistances |-> sortedDistances,
              confidence |-> StatisticsConfidence(validDistances)]

(***************************************************************************)
(* Metadata bags                                                           *)
(***************************************************************************)
CommentFieldNames ==
    {"UserComment", "EXIF:UserComment", "ImageDescription", "XMP:Description",
     "Comments", "Comment", "XMP:UserComment", "IPTC:SpecialInstructions"}

NumericFieldNames ==
    {"SubjectDistance", "EXIF:SubjectDistance", "Composite:SubjectDistance",
     "XMP:SubjectDistance", "Camera:SubjectDistance", "FocusDistance",
     "HyperfocalDistance"}

DistanceFieldNames == CommentFieldNames \cup NumericFieldNames

CameraFieldNames ==
    {"EXIF:FocalLength", "FocalLength", "Camera:FocalLength", "EXIF:Make",
     "Make", "EXIF:Model", "Model", "XMP:RelativeAltitude",
     "RelativeAltitude", "GPS:GPSAltitude", "GPSAltitude"}

AllFieldNames == DistanceFieldNames \cup CameraFieldNames

\* the bag holding exactly the tags of the function tags
Bag(tags) ==
    [f \in AllFieldNames |-> IF f \in DOMAIN tags THEN tags[f] ELSE Undefined]

EmptyBag == Bag([f \in {} |-> Undefined])

PresentFields(exif) == {f \in AllFieldNames : exif[f] # Undefined}

(***************************************************************************)
(* The files a request may carry.  A file is [name, metadata, exif, width, *)
(* height, io]: metadata is the parsed metadata_i form field ([present,    *)
(* blade, side, manualDistance], manualDistance 0 when it is not given),   *)
(* exif the bag exiftool returns, width and height what sharp reports (0   *)
(* when it reports none), io the outcome of the file system, sharp and     *)
(* exiftool calls.                                                         *)
(***************************************************************************)
NoMetadata == [present |-> FALSE, blade |-> "A", side |-> "TE",
               manualDistance |-> 0]

\* imageMetadata.width || 5280, imageMetadata.height || 3956
DefaultWidth == 5280
DefaultHeight == 3956

UploadDistanceTags ==
    { [f \in {} |-> Undefined],
      "EXIF:UserComment" :> Str("distance: 42m"),
      "Comment" :> Str("distance: 150 meters"),
      "SubjectDistance" :> Num(30 * Scale) }

\* the focal-length and altitude tags of a file
UploadCameraTags ==
    { [f \in {} |-> Undefined],
      "XMP:RelativeAltitude" :> Str("+10.50"),
      "EXIF:FocalLength" :> Str(". mm"),
      "FocalLength" :> Str("0 mm") }

\* the name, the metadata_i form field and the size sharp reports
UploadForms ==
    { [name |-> "photo.jpg", metadata |-> NoMetadata,
       width |-> 0, height |-> 0],
      [name |-> "DJI_0001-A-TE-.JPG", metadata |-> NoMetadata,
       width |-> DefaultWidth, height |-> DefaultHeight] }
    \cup { [name |-> "photo.jpg",
            metadata |-> [present |-> TRUE, blade |-> "A", side |-> "TE",
                          manualDistance |-> m],
            width |-> 0, height |-> 0] :
           m \in {0, 30 * Scale, 30} }

File(form, tags, io) ==
    [name |-> form.name, metadata |-> form.metadata, exif |-> Bag(tags),
     width |-> form.width, height |-> form.height, io |-> io]

Files ==
    { File(form, d @@ cam, "ok") :
      form \in UploadForms, d \in UploadDistanceTags,
      cam \in UploadCameraTags }
    \cup { File(form, [f \in {} |-> Undefined], io) :
           form \in {fm \in UploadForms : fm.name = "photo.jpg"
                                          /\ ~fm.metadata.present},
           io \in {"exiftool_failed", "no_exif"} }

\* extractBladeDistance, getCameraSpecs and the altitude of every bag of
\* Files, evaluated once
UploadBags == {file.exif : file \in Files}
BladeDistanceOf == [exif \in UploadBags |-> extractBladeDistance(exif)]

\* the bags of the calls of calculateGSDForTurbine outside the handler
GsdBags ==
    { Bag(fl @@ mk) :
      fl \in { [f \in {} |-> Undefined], "EXIF:FocalLength" :> Str("24.0 mm"),
               "FocalLength" :> Num(450) },
      mk \in { [f \in {} |-> Undefined], "Model" :> Str("Mini 2") } }

(***************************************************************************)
(* app/api/upload/route.ts, calculateGSDForTurbine                         *)
(***************************************************************************)
\* what calculateGSDForTurbine reads from the bag: make, model, camera
\* specs and altitude
ReadCamera(exif) ==
    [make |-> MakeOf(exif), model |-> ModelOf(exif),
     specs |-> getCameraSpecs(MakeOf(exif).s, ModelOf(exif).s, exif),
     altitude |-> AltitudeAboveGround(exif)]

\* ReadCamera of the bags of the model, evaluated once
CameraTable == [exif \in UploadBags \cup GsdBags |-> ReadCamera(exif)]
CameraOf(exif) == CameraTable[exif]

\* the value of a call that threw
NoGsd ==
    [gsd_width |-> 0, gsd_height |-> 0, gsd_cm_per_pixel |-> 0,
     flight_height |-> 0, distance_to_blade |-> 0, altitude_source |-> "",
     distance_source |-> "", distance_confidence |-> "low"]

\* the return statement of calculateGSDForTurbine: w and h are the width
\* and height GSD, alt the altitude above ground
GsdResult(w, h, alt, distanceToBladeMeters, distanceSource, distanceConfidence) ==
    [threw |-> "no",
     gsd |-> [gsd_width |-> w, gsd_height |-> h,
              gsd_cm_per_pixel |-> Average(w, h),
              flight_height |-> alt,
              distance_to_blade |-> distanceToBladeMeters,
              altitude_source |-> IF JsGt(alt, 0) THEN "relative_altitude"
                                  ELSE "estimated",
              distance_source |-> distanceSource,
              distance_confidence |-> distanceConfidence]]

\* the body of calculateGSDForTurbine once make, model, camera specs and
\* altitude are read.  threw = "TypeError" when make or model is not a
\* string (toUpperCase is not a function), "InvalidDistance" for a
\* distance <= 0, "no" otherwise.
GsdForCamera(camera, imageWidth, imageHeight, distanceToBladeMeters, distanceSource, distanceConfidence) ==
    IF camera.make.t # "string" \/ camera.model.t # "string"
    THEN [threw |-> "TypeError", gsd |-> NoGsd]
    ELSE IF JsLe(distanceToBladeMeters, 0)
    THEN [threw |-> "InvalidDistance", gsd |-> NoGsd]
    ELSE GsdResult(GsdPerPixel(camera.specs.sensor_width,
                               distanceToBladeMeters,
                               camera.specs.focal_length, imageWidth),
                   GsdPerPixel(camera.specs.sensor_height,
                               distanceToBladeMeters,
                               camera.specs.focal_length, imageHeight),
                   camera.altitude, distanceToBladeMeters, distanceSource,
                   distanceConfidence)

\* app/api/upload/route.ts, calculateGSDForTurbine
calculateGSDForTurbine(exif, imageWidth, imageHeight, distanceToBladeMeters, distanceSource, distanceConfidence) ==
    GsdForCamera(CameraOf(exif), imageWidth, imageHeight,
                 distanceToBladeMeters, distanceSource, distanceConfidence)

(***************************************************************************)
(* app/api/upload/route.ts: the per-file part of POST                      *)
(***************************************************************************)
\* upperFilename.includes("-A-") || upperFilename.includes("_A_"), ...
NameHas(name, key) ==
    \/ LowerIncludes(name, "-" \o key \o "-")
    \/ LowerIncludes(name, "_" \o key \o "_")

extractBladeAndSide(filename, metadata) ==
    IF metadata.present
    THEN [blade |-> metadata.blade, side |-> metadata.side]
    ELSE [blade |-> IF NameHas(filename, "a") THEN "A"
                    ELSE IF NameHas(filename, "b") THEN "B"
                    ELSE IF NameHas(filename, "c") THEN "C" ELSE "A",
          side |-> IF NameHas(filename, "te") THEN "TE"
                   ELSE IF NameHas(filename, "ps") THEN "PS"
                   ELSE IF NameHas(filename, "le") THEN "LE"
                   ELSE IF NameHas(filename, "ss") THEN "SS" ELSE "TE"]

\* a variant that stores the confidence of the estimator: C13 does not hold
\* of it
DowngradeNone(confidence) == confidence

\* stats.confidence === "high" ? "medium" : "low"
Downgrade(confidence) == IF confidence = "high" THEN "medium" ELSE "low"

\* `interpolated_from_${stats.validDistances.length}_images`
InterpolatedSource(n) == "interpolated_from_" \o ToString(n) \o "_images"

\* the decision of lines 431-477 on the EXIF resolution info, the manual
\* distance of the metadata and the statistics stats of the stored images:
\* the EXIF distance, else the manual distance, else the interpolated one;
\* threw names the error thrown on the way, "no" when none is
DecideDistance(metadata, info, stats) ==
    LET manual == metadata.present /\ metadata.manualDistance # 0
                  /\ JsGt(metadata.manualDistance, 0)
        out(threw, d, src, conf, interp) ==
            [threw |-> threw, distance |-> d, source |-> src,
             confidence |-> conf, interpolated |-> interp]
    IN  IF manual /\ info.distance # 0
        THEN out("manual_conflict", 0, "", "low", FALSE)
        ELSE IF manual
        THEN out("no", metadata.manualDistance, "manual_input", "high", FALSE)
        ELSE IF info.distance # 0
        THEN out("no", info.distance, info.source, info.confidence, FALSE)
        ELSE IF JsGt(stats.meanDistance, 0)
        THEN out("no", stats.medianDistance,
                 InterpolatedSource(Len(stats.validDistances)),
                 Downgrade(stats.confidence), TRUE)
        ELSE out("unresolved_distance", 0, "", "low", FALSE)

\* the distance the handler settles on (lines 427-477)
FinalDistance(file, existing, blade, side) ==
    DecideDistance(file.metadata, BladeDistanceOf[file.exif],
                   calculateDistanceStatistics(existing, blade, side))

\* a variant without the lower limit: C6 does not hold of it
DistanceOutOfRangeUpperOnly(d) == JsGt(d, BladeDistanceMax)

\* finalDistance < 0.5 || finalDistance > 100
DistanceOutOfRange(d) ==
    JsLt(d, BladeDistanceMin) \/ JsGt(d, BladeDistanceMax)

\* gsdData.gsd_cm_per_pixel < 0.001 || gsdData.gsd_cm_per_pixel > 50
GsdOutOfRange(g) == JsLt(g, GsdMin) \/ JsGt(g, GsdMax)

\* the outcome of one iteration of the for loop of POST, given blade and
\* side bs, the distance final and the GSD g: [error, image, interpolated];
\* error is "no" when the file yields the image, else what the catch
\* block pushes to errors; interpolated tells whether interpolationLog
\* received an entry
ProcessOutcome(file, bs, final, g) ==
    LET fail(e, interp) ==
            [error |-> e, interpolated |-> interp,
             image |-> [blade |-> bs.blade, side |-> bs.side, gsd |-> NoGsd]]
    IN  IF file.io # "ok" THEN fail(file.io, FALSE)
        ELSE IF final.threw # "no" THEN fail(final.threw, FALSE)
        ELSE IF DistanceOutOfRange(final.distance)
        THEN fail("implausible_distance", final.interpolated)
        ELSE IF g.threw # "no" THEN fail(g.threw, final.interpolated)
        ELSE IF GsdOutOfRange(g.gsd.gsd_cm_per_pixel)
        THEN fail("implausible_gsd", final.interpolated)
        ELSE [error |-> "no", interpolated |-> final.interpolated,
              image |-> [blade |-> bs.blade, side |-> bs.side,
                         gsd |-> g.gsd]]

\* lines 479-507: the GSD of the distance final
ProcessDistance(file, bs, final) ==
    ProcessOutcome(file, bs, final,
                   calculateGSDForTurbine(
                       file.exif,
                       IF file.width = 0 THEN DefaultWidth ELSE file.width,
                       IF file.height = 0 THEN DefaultHeight ELSE file.height,
                       final.distance, final.source, final.confidence))

\* lines 421-477: the distance of the image of blade and side bs
ProcessBlade(file, existing, bs) ==
    ProcessDistance(file, bs,
                    FinalDistance(file, existing, bs.blade, bs.side))

\* one iteration of the for loop of POST
ProcessOne(file, existing) ==
    ProcessBlade(file, existing,
                 extractBladeAndSide(file.name, file.metadata))

\* allImages.sort((a, b) => a.gsd.flight_height - b.gsd.flight_height),
\* a stable sort
RECURSIVE InsertByHeight(_, _)
InsertByHeight(sorted, img) ==
    IF sorted = << >> THEN << img >>
    ELSE IF img.gsd.flight_height < Head(sorted).gsd.flight_height
    THEN << img >> \o sorted
    ELSE << Head(sorted) >> \o InsertByHeight(Tail(sorted), img)

RECURSIVE SortByHeight(_)
SortByHeight(images) ==
    IF images = << >> THEN << >>
    ELSE InsertByHeight(SortByHeight(SubSeq(images, 1, Len(images) - 1)),
                        images[Len(images)])

(***************************************************************************)
(* State                                                                   *)
(***************************************************************************)
VARIABLES
    \* the upload handler POST
    stored,            \* the images of public/turbine-data.json
    pc,                \* "idle", "loop" (inside the for loop) or "done"
    existingImages,    \* the snapshot loadExistingImages returned
    fileCount,         \* files.length
    fileIndex,         \* how many files the loop has processed
    lastFile,          \* the file of the latest iteration of the loop
    processedImages,
    errors,
    interpolationLog,  \* interpolationLog.length
    response,
    \* the resolvers and the validation applied to one metadata bag
    exifData, readResult, uploadResult, checked,
    \* the estimator applied to one population of images
    population, estimate,
    \* one call of a GSD calculator
    gsdCall,
    \* one call of a blade geometry function on a set of images
    bladeImages, bladeCall,
    \* the POST requests whose executions overlap
    requests,
    \* the viewer hook useEnhancedTurbine and the measurement overlay
    allImages, currentFilter, currentImageIndex, animations, measurements,
    localStorage, isDrawing, currentMeasurement, now, lastEvent, fetches,
    \* one call of calculateDistance of the measurement overlay
    measureCall

uploadVars == << stored, pc, existingImages, fileCount, fileIndex, lastFile,
                 processedImages, errors, interpolationLog, response >>
resolverVars == << exifData, readResult, uploadResult, checked >>
estimatorVars == << population, estimate >>
bladeVars == << bladeImages, bladeCall >>
viewerVars == << allImages, currentFilter, currentImageIndex, animations,
                 measurements, localStorage, isDrawing, currentMeasurement,
                 now, lastEvent, fetches >>
clientVars == << viewerVars, measureCall >>
vars == << uploadVars, resolverVars, estimatorVars, gsdCall, bladeVars,
           requests, clientVars >>

(***************************************************************************)
(* The upload handler POST as a state machine: StartUpload is the code up  *)
(* to the for loop, ProcessFile one iteration of the loop, FinishUpload    *)
(* the code after it.                                                      *)
(***************************************************************************)
MaxFiles == 2
MaxStored == 2

NoResponse == [status |-> 0, processed |-> 0, total_images |-> 0,
               errors |-> << >>, interpolated_count |-> 0]

\* lastFile before the first iteration
NoFile == File([name |-> "", metadata |-> NoMetadata, width |-> 0,
                height |-> 0], [f \in {} |-> Undefined], "none")

UploadInit ==
    /\ stored = << >>
    /\ pc = "idle"
    /\ existingImages = << >>
    /\ fileCount = 0
    /\ fileIndex = 0
    /\ lastFile = NoFile
    /\ processedImages = << >>
    /\ errors = << >>
    /\ interpolationLog = 0
    /\ response = NoResponse

\* lines 363-383: no file is a 400; else the snapshot is loaded and the
\* loop starts
BeginRequest(n) ==
    /\ fileCount' = n
    /\ fileIndex' = 0
    /\ lastFile' = NoFile
    /\ processedImages' = << >>
    /\ errors' = << >>
    /\ interpolationLog' = 0
    /\ IF n = 0
       THEN /\ pc' = "done"
            /\ response' = [NoResponse EXCEPT !.status = 400]
            /\ existingImages' = << >>
       ELSE /\ pc' = "loop"
            /\ response' = NoResponse
            /\ existingImages' = stored
    /\ UNCHANGED stored

\* a request of n files, after any number of earlier requests
StartUpload(n) ==
    /\ pc \in {"idle", "done"}
    /\ Len(stored) + n <= MaxStored
    /\ BeginRequest(n)

\* the catch block of the loop ends the loop
CollectAborting(r) ==
    /\ processedImages' = IF r.error = "no"
                          THEN Append(processedImages, r.image)
                          ELSE processedImages
    /\ errors' = IF r.error = "no" THEN errors ELSE Append(errors, r.error)
    /\ interpolationLog' = IF r.interpolated THEN interpolationLog + 1
                           ELSE interpolationLog
    /\ pc' = IF r.error = "no" THEN pc ELSE "done"

\* a variant whose loop ends at the first file that fails: C8 does not
\* hold of it
ProcessFileAborting(file) ==
    /\ pc = "loop"
    /\ fileIndex < fileCount
    /\ CollectAborting(ProcessOne(file, existingImages))
    /\ fileIndex' = fileIndex + 1
    /\ lastFile' = file
    /\ UNCHANGED << stored, existingImages, fileCount, response >>

\* processedImages.push, errors.push in the catch block and
\* interpolationLog.push for the outcome r of an iteration
Collect(r) ==
    /\ processedImages' = IF r.error = "no"
                          THEN Append(processedImages, r.image)
                          ELSE processedImages
    /\ errors' = IF r.error = "no" THEN errors ELSE Append(errors, r.error)
    /\ interpolationLog' = IF r.interpolated THEN interpolationLog + 1
                           ELSE interpolationLog

\* a variant that interpolates from the images of the batch as well: C14
\* does not hold of it
ProcessFileIncremental(file) ==
    /\ pc = "loop"
    /\ fileIndex < fileCount
    /\ Collect(ProcessOne(file, existingImages \o processedImages))
    /\ fileIndex' = fileIndex + 1
    /\ lastFile' = file
    /\ UNCHANGED << stored, pc, existingImages, fileCount, response >>

\* lines 385-541: one iteration of the loop
ProcessFile(file) ==
    /\ pc = "loop"
    /\ fileIndex < fileCount
    /\ Collect(ProcessOne(file, existingImages))
    /\ fileIndex' = fileIndex + 1
    /\ lastFile' = file
    /\ UNCHANGED << stored, pc, existingImages, fileCount, response >>

\* lines 543-578: nothing processed is a 400; else the collection is
\* written back and the response built
FinishUpload ==
    /\ pc = "loop"
    /\ fileIndex = fileCount
    /\ pc' = "done"
    /\ IF Len(processedImages) = 0
       THEN /\ response' = [NoResponse EXCEPT !.status = 400,
                                              !.errors = errors]
            /\ UNCHANGED stored
       ELSE /\ stored' = SortByHeight(existingImages \o processedImages)
            /\ response' = [status |-> 200,
                            processed |-> Len(processedImages),
                            total_images |->
                                Len(existingImages) + Len(processedImages),
                            errors |-> errors,
                            interpolated_count |-> interpolationLog]
    /\ UNCHANGED << existingImages, fileCount, fileIndex, lastFile,
                    processedImages, errors, interpolationLog >>

(***************************************************************************)
(* The values of the variables a specification does not use                *)
(***************************************************************************)
Pending == [distance |-> 0, source |-> "pending", confidence |-> "low"]
NotChecked == [done |-> FALSE]
NoEstimate == [done |-> FALSE]
NoCall == [fn |-> "none"]

ResolverIdle ==
    /\ exifData = EmptyBag
    /\ readResult = Pending
    /\ uploadResult = Pending
    /\ checked = NotChecked

EstimatorIdle ==
    /\ population = << >>
    /\ estimate = NoEstimate

GsdIdle == gsdCall = NoCall

NoRequests == requests = << >>

NoPoint == [x |-> 0, y |-> 0]
NoDrawing == [start |-> NoPoint, end |-> NoPoint]

ViewerIdle ==
    /\ allImages = << >>
    /\ currentFilter = [blade |-> "A", side |-> "TE"]
    /\ currentImageIndex = 0
    /\ animations = << >>
    /\ measurements = << >>
    /\ localStorage = << >>
    /\ isDrawing = FALSE
    /\ currentMeasurement = NoDrawing
    /\ now = 0
    /\ lastEvent = "none"
    /\ fetches = << >>

ClientIdle == ViewerIdle /\ measureCall = NoCall

BladeIdle ==
    /\ bladeImages = << >>
    /\ bladeCall = NoCall

(***************************************************************************)
(* SpecResolver: both resolvers applied to one metadata bag, and the       *)
(* validation applied to an image that carries the resolution read from it *)
(***************************************************************************)
MaxFields == 2

\* the bags with at most k distance-related tags
ResolverBags(k) ==
    UNION { { Bag(c @@ n) : c \in [P \cap CommentFieldNames -> CommentValues],
                            n \in [P \cap NumericFieldNames -> NumericValues] } :
            P \in {Q \in SUBSET DistanceFieldNames : Cardinality(Q) <= k} }

\* the GSD (0, 0.05 and 60 cm/pixel) of the image that is validated
GsdSamples == {0, GsdScale \div 20, 60 * GsdScale}

ImageWith(g, resolution) ==
    [blade |-> "A", side |-> "TE",
     gsd |-> [gsd_width |-> g, gsd_height |-> g, gsd_cm_per_pixel |-> g,
              flight_height |-> 0, distance_to_blade |-> resolution.distance,
              altitude_source |-> "estimated",
              distance_source |-> resolution.source,
              distance_confidence |-> resolution.confidence]]

\* an image no validation objects to
GoodImage ==
    ImageWith(GsdScale \div 20,
              [distance |-> 30 * Scale, source |-> "EXIF:UserComment",
               confidence |-> "high"])

ResolverInit ==
    /\ exifData \in ResolverBags(MaxFields)
    /\ readResult = Pending
    /\ uploadResult = Pending
    /\ checked = NotChecked

FindDistance ==
    /\ readResult = Pending
    /\ readResult' = findDistanceInExif(exifData)
    /\ UNCHANGED << exifData, uploadResult, checked >>

ExtractDistance ==
    /\ readResult # Pending
    /\ uploadResult = Pending
    /\ uploadResult' = extractBladeDistance(exifData)
    /\ UNCHANGED << exifData, readResult, checked >>

\* the image built on the resolution, alone or after a good image
ValidateImages(g, others) ==
    /\ uploadResult # Pending
    /\ readResult.source # "not_found"
    /\ ~checked.done
    /\ LET image == ImageWith(g, readResult)
           images == others \o << image >>
       IN  checked' = [done |-> TRUE, image |-> image, images |-> images,
                       validation |-> validateTurbineImages(images),
                       single |-> validateSingleImage(image),
                       ready |-> getMeasurementReadyImages(images),
                       reprocess |-> getImagesNeedingReprocessing(images)]
    /\ UNCHANGED << exifData, readResult, uploadResult >>

ResolverNext ==
    \/ FindDistance /\ UNCHANGED << uploadVars, estimatorVars, gsdCall, bladeVars,
                    requests, clientVars >>
    \/ ExtractDistance /\ UNCHANGED << uploadVars, estimatorVars, gsdCall, bladeVars,
                    requests, clientVars >>
    \/ \E g \in GsdSamples, others \in {<< >>, << GoodImage >>} :
          ValidateImages(g, others)
          /\ UNCHANGED << uploadVars, estimatorVars, gsdCall, bladeVars,
                    requests, clientVars >>

InitResolver == UploadInit /\ ResolverInit /\ EstimatorIdle /\ GsdIdle /\ BladeIdle
    /\ NoRequests /\ ClientIdle

SpecResolver == InitResolver /\ [][ResolverNext]_vars

(***************************************************************************)
(* SpecEstimator: calculateDistanceStatistics applied to a population      *)
(***************************************************************************)
MaxPopulation == 5

\* an image of blade and side bs with distance and confidence dc
PopulationImage(bs, dc) ==
    [blade |-> bs[1], side |-> bs[2],
     gsd |-> [gsd_width |-> GsdScale \div 20, gsd_height |-> GsdScale \div 20,
              gsd_cm_per_pixel |-> GsdScale \div 20, flight_height |-> 0,
              distance_to_blade |-> dc[1], altitude_source |-> "estimated",
              distance_source |-> "EXIF:UserComment",
              distance_confidence |-> dc[2]]]

\* the images of a population: blade A side TE with and without a usable
\* distance, the other side and the other blade with a usable one
PopulationImages ==
    { PopulationImage(<< "A", "TE" >>, dc) :
      dc \in { << 0, "high" >>, << 28 * Scale, "medium" >>,
               << 30 * Scale, "high" >>, << 30 * Scale, "low" >> } }
    \cup { PopulationImage(bs, dc) :
           bs \in { << "A", "PS" >>, << "B", "TE" >> },
           dc \in { << 20 * Scale, "medium" >>, << 30 * Scale, "high" >> } }

EstimatorInit ==
    /\ population = << >>
    /\ estimate = NoEstimate

AddImage(img) ==
    /\ ~estimate.done
    /\ Len(population) < MaxPopulation
    /\ population' = Append(population, img)
    /\ UNCHANGED estimate

Estimate(blade, side) ==
    /\ ~estimate.done
    /\ estimate' = [done |-> TRUE, blade |-> blade, side |-> side,
                    stats |-> calculateDistanceStatistics(population, blade,
                                                          side)]
    /\ UNCHANGED population

EstimatorNext ==
    \/ \E img \in PopulationImages :
          AddImage(img) /\ UNCHANGED << uploadVars, resolverVars, gsdCall, bladeVars,
                    requests, clientVars >>
    \/ \E blade \in {"A", "B"} :
          Estimate(blade, "TE")
          /\ UNCHANGED << uploadVars, resolverVars, gsdCall, bladeVars,
                    requests, clientVars >>

InitEstimator == UploadInit /\ ResolverIdle /\ EstimatorInit /\ GsdIdle /\ BladeIdle
    /\ NoRequests /\ ClientIdle

SpecEstimator == InitEstimator /\ [][EstimatorNext]_vars

(***************************************************************************)
(* SpecGsd: one call of each GSD calculator                                *)
(***************************************************************************)
\* distances from -10 m to 100 m, focal lengths, sensors and image sizes
GsdDistances ==
    {0 - 10 * Scale, 0 - Scale \div 2, 0, Scale \div 2, 30 * Scale, 100 * Scale}
GsdFocalLengths == {DefaultFocalLength, 24 * Scale, 450}
GsdSensors == { << 1730, 1300 >>, << 617, 455 >> }
GsdSizes == { << DefaultWidth, DefaultHeight >>, << 4000, 3000 >> }
CallGSD(d, focal, sensor, size) ==
    gsdCall' = [fn |-> "calculateGSD", distance |-> d,
                result |-> calculateGSD(focal, d, sensor[1], sensor[2],
                                        size[1], size[2])]

CallEstimatedGSD(d, focal, sensor, size) ==
    gsdCall' = [fn |-> "calculateEstimatedGSD", distance |-> d,
                result |-> calculateEstimatedGSD(d, focal, sensor[1],
                                                 sensor[2], size[1], size[2])]

\* the outcome and the three GSD values of a call of calculateGSDForTurbine
TurbineResult(r) ==
    [threw |-> r.threw, gsd_width |-> r.gsd.gsd_width,
     gsd_height |-> r.gsd.gsd_height,
     gsd_cm_per_pixel |-> r.gsd.gsd_cm_per_pixel]

\* distanceSource and distanceConfidence take their defaults
CallGSDForTurbine(d, exif, size) ==
    gsdCall' = [fn |-> "calculateGSDForTurbine", distance |-> d,
                result |-> TurbineResult(
                    calculateGSDForTurbine(exif, size[1], size[2], d,
                                           "calculated", "medium"))]

GsdNext ==
    \/ \E d \in GsdDistances, focal \in GsdFocalLengths, sensor \in GsdSensors,
          size \in GsdSizes :
          CallGSD(d, focal, sensor, size)
          /\ UNCHANGED << uploadVars, resolverVars, estimatorVars, bladeVars,
                    requests, clientVars >>
    \/ \E d \in GsdDistances, focal \in GsdFocalLengths, sensor \in GsdSensors,
          size \in GsdSizes :
          CallEstimatedGSD(d, focal, sensor, size)
          /\ UNCHANGED << uploadVars, resolverVars, estimatorVars, bladeVars,
                    requests, clientVars >>
    \/ \E d \in GsdDistances, exif \in GsdBags, size \in GsdSizes :
          CallGSDForTurbine(d, exif, size)
          /\ UNCHANGED << uploadVars, resolverVars, estimatorVars, bladeVars,
                    requests, clientVars >>

InitGsd == UploadInit /\ ResolverIdle /\ EstimatorIdle /\ GsdIdle /\ BladeIdle
    /\ NoRequests /\ ClientIdle

SpecGsd == InitGsd /\ [][GsdNext]_vars

(***************************************************************************)
(* Blade geometry (lib/blade-utils.ts).  An image is [hasGsd, gsd] with    *)
(* gsd = [flight_height]; altitudes, lengths and spacings count hundredths *)
(* of a metre, pixels hundredths of a pixel, percentages and scores        *)
(* hundredths of a point.  A quotient is rounded down to a hundredth; the  *)
(* comparisons of the source are decided exactly, on the fractions.        *)
(***************************************************************************)
BladeImage(h) == [hasGsd |-> TRUE, gsd |-> [flight_height |-> h]]
NoGsdImage == [hasGsd |-> FALSE, gsd |-> [flight_height |-> 0]]

\* img.gsd?.flight_height || fallback
FlightHeightOr(img, fallback) ==
    IF img.hasGsd /\ img.gsd.flight_height # 0 /\ ~IsNaN(img.gsd.flight_height)
    THEN img.gsd.flight_height ELSE fallback

\* images.map((img) => img.gsd?.flight_height || 0).filter((alt) => alt > 0)
PositiveAltitudes(images) ==
    Flatten([i \in 1..Len(images) |->
                IF FlightHeightOr(images[i], 0) > 0
                THEN << FlightHeightOr(images[i], 0) >> ELSE << >>], 1)

\* ... .sort((a, b) => a - b)
SortedAltitudes(images) == SortAscending(PositiveAltitudes(images))

MaxOf2(a, b) == IF a >= b THEN a ELSE b
MinOf2(a, b) == IF a <= b THEN a ELSE b

ZeroMetrics(totalImages, pixelsPerMeter) ==
    [lengthMeters |-> 0, lengthPixels |-> 0, minAltitude |-> 0,
     maxAltitude |-> 0, altitudeRange |-> 0, totalImages |-> totalImages,
     averageSpacing |-> 0, pixelsPerMeter |-> pixelsPerMeter]

\* a variant without the upper limit of 500 pixels: C15 does not hold of it
LengthPixelsAtLeast(lengthMeters, pixelsPerMeter) ==
    MaxOf2(200 * Scale, (lengthMeters * pixelsPerMeter) \div Scale)

\* Math.max(200, Math.min(500, lengthMeters * pixelsPerMeter))
LengthPixels(lengthMeters, pixelsPerMeter) ==
    MaxOf2(200 * Scale,
           MinOf2(500 * Scale, (lengthMeters * pixelsPerMeter) \div Scale))

\* the metrics of a non-empty sorted sequence of altitudes
MetricsOfAltitudes(altitudes, totalImages, pixelsPerMeter) ==
    [lengthMeters |-> altitudes[Len(altitudes)] - altitudes[1],
     lengthPixels |-> LengthPixels(altitudes[Len(altitudes)] - altitudes[1],
                                   pixelsPerMeter),
     minAltitude |-> altitudes[1],
     maxAltitude |-> altitudes[Len(altitudes)],
     altitudeRange |-> altitudes[Len(altitudes)] - altitudes[1],
     totalImages |-> totalImages,
     averageSpacing |->
         IF Len(altitudes) > 1
         THEN (altitudes[Len(altitudes)] - altitudes[1])
              \div (Len(altitudes) - 1)
         ELSE 0,
     pixelsPerMeter |-> pixelsPerMeter]

\* a variant that returns the all-zero metrics for every set without a
\* positive altitude: C16 as amended does not hold of it
MetricsAllZero(altitudes, totalImages, pixelsPerMeter) ==
    IF Len(altitudes) = 0 THEN ZeroMetrics(0, pixelsPerMeter)
    ELSE MetricsOfAltitudes(altitudes, totalImages, pixelsPerMeter)

\* calculateBladeMetrics once the altitudes are sorted
MetricsOf(altitudes, totalImages, pixelsPerMeter) ==
    IF Len(altitudes) = 0 THEN ZeroMetrics(totalImages, pixelsPerMeter)
    ELSE MetricsOfAltitudes(altitudes, totalImages, pixelsPerMeter)

calculateBladeMetrics(images, pixelsPerMeter) ==
    IF Len(images) = 0 THEN ZeroMetrics(0, pixelsPerMeter)
    ELSE MetricsOf(SortedAltitudes(images), Len(images), pixelsPerMeter)

\* calculateImagePosition -------------------------------------------------
\* numerator / denominator times factor, in hundredths
Ratio(numerator, denominator, factor) ==
    (numerator * factor * Scale) \div denominator

\* the offset measured from the base of the blade instead of its top
PositionPixelsFromBase(altitudeFromBase, bladeMetrics) ==
    IF bladeMetrics.altitudeRange > 0
    THEN (altitudeFromBase * bladeMetrics.lengthPixels)
         \div bladeMetrics.altitudeRange
    ELSE 0

PositionPixels(altitudeFromBase, bladeMetrics) ==
    IF bladeMetrics.altitudeRange > 0
    THEN bladeMetrics.lengthPixels
         - (altitudeFromBase * bladeMetrics.lengthPixels)
           \div bladeMetrics.altitudeRange
    ELSE bladeMetrics.lengthPixels

PositionFromBase(altitudeFromBase, bladeMetrics) ==
    [altitudeFromBase |-> altitudeFromBase,
     percentageFromBase |->
         IF bladeMetrics.altitudeRange > 0
         THEN Ratio(altitudeFromBase, bladeMetrics.altitudeRange, 100)
         ELSE 0,
     positionPixels |->
         MaxOf2(4 * Scale,
                MinOf2(bladeMetrics.lengthPixels - 4 * Scale,
                       PositionPixels(altitudeFromBase, bladeMetrics))),
     imageIndex |-> 0,
     relativePosition |->
         IF bladeMetrics.altitudeRange > 0
         THEN Ratio(altitudeFromBase, bladeMetrics.altitudeRange, 1)
         ELSE 0]

calculateImagePosition(image, bladeMetrics) ==
    PositionFromBase(FlightHeightOr(image, bladeMetrics.minAltitude)
                         - bladeMetrics.minAltitude,
                     bladeMetrics)

\* getBladeCoverage ------------------------------------------------------
EmptyCoverage ==
    [totalCoverage |-> 0, gaps |-> << >>, densityMap |-> << >>,
     qualityScore |-> 0]

\* gap >= gapThreshold
GapAtLeastThreshold(gap, totalRange, count) ==
    2 * gap * (count - 1) >= 5 * totalRange

\* gap > gapThreshold, with avgSpacing = totalRange / (count - 1) and
\* gapThreshold = avgSpacing * 2.5, both sides multiplied by 2 * (count - 1)
GapAboveThreshold(gap, totalRange, count) ==
    2 * gap * (count - 1) > 5 * totalRange

\* the gaps wider than one average spacing
GapsAboveAverage(altitudes, totalRange) ==
    IF Len(altitudes) > 1
    THEN Flatten([i \in 1..(Len(altitudes) - 1) |->
                    IF (altitudes[i + 1] - altitudes[i]) * (Len(altitudes) - 1)
                          > totalRange
                    THEN << [start |-> altitudes[i], end |-> altitudes[i + 1],
                             size |-> altitudes[i + 1] - altitudes[i]] >>
                    ELSE << >>], 1)
    ELSE << >>

GapsOf(altitudes, totalRange) ==
    IF Len(altitudes) > 1
    THEN Flatten([i \in 1..(Len(altitudes) - 1) |->
                    IF GapAboveThreshold(altitudes[i + 1] - altitudes[i],
                                         totalRange, Len(altitudes))
                    THEN << [start |-> altitudes[i], end |-> altitudes[i + 1],
                             size |-> altitudes[i + 1] - altitudes[i]] >>
                    ELSE << >>], 1)
    ELSE << >>

BinCountAtLeast(count) == MaxOf2(5, count \div 2)

BinCount(count) == MinOf2(20, MaxOf2(5, count \div 2))

\* alt >= binStart && alt < binEnd for bin i (from 0), with binStart =
\* minAltitude + i * binSize, binEnd = binStart + binSize and binSize =
\* totalRange / binCount, both sides multiplied by binCount
InBin(alt, i, minAltitude, totalRange, binCount) ==
    /\ (alt - minAltitude) * binCount >= i * totalRange
    /\ (alt - minAltitude) * binCount < (i + 1) * totalRange

\* binCenter = binStart + binSize / 2, to the hundredth
BinCenter(i, minAltitude, totalRange, binCount) ==
    minAltitude + ((2 * i + 1) * totalRange) \div (2 * binCount)

DensityBin(altitudes, i, totalRange, binCount) ==
    [altitude |-> BinCenter(i, altitudes[1], totalRange, binCount),
     imageCount |->
         Cardinality({j \in 1..Len(altitudes) :
                         InBin(altitudes[j], i, altitudes[1], totalRange,
                               binCount)})]

DensityMapOf(altitudes, totalRange, binCount) ==
    [b \in 1..binCount |-> DensityBin(altitudes, b - 1, totalRange, binCount)]

RECURSIVE SumOfSizes(_, _)
SumOfSizes(gaps, i) ==
    IF i > Len(gaps) THEN 0 ELSE gaps[i].size + SumOfSizes(gaps, i + 1)

\* (sum of the gap sizes / totalRange) * 50, to the hundredth
GapPenalty(gaps, totalRange) ==
    IF totalRange > 0
    THEN (SumOfSizes(gaps, 1) * 50 * Scale) \div totalRange
    ELSE 0

\* avgDensity < 0.1, with avgDensity = count / totalRange images per metre
\* and 0 for no range
LowDensity(count, totalRange) ==
    IF totalRange > 0 THEN 10 * count * Scale < totalRange ELSE TRUE

RawScore(gaps, count, totalRange) ==
    100 * Scale - GapPenalty(gaps, totalRange)
    - (IF LowDensity(count, totalRange) THEN 30 * Scale ELSE 0)
    + (IF count >= 20 THEN 10 * Scale ELSE 0)

QualityUnclamped(gaps, count, totalRange) ==
    RawScore(gaps, count, totalRange)

QualityScore(gaps, count, totalRange) ==
    MaxOf2(0, MinOf2(100 * Scale, RawScore(gaps, count, totalRange)))

CoverageWithGaps(altitudes, totalRange, gaps) ==
    [totalCoverage |-> IF totalRange > 0 THEN 100 ELSE 0,
     gaps |-> gaps,
     densityMap |-> DensityMapOf(altitudes, totalRange,
                                 BinCount(Len(altitudes))),
     qualityScore |-> QualityScore(gaps, Len(altitudes), totalRange)]

CoverageOfRange(altitudes, totalRange) ==
    CoverageWithGaps(altitudes, totalRange, GapsOf(altitudes, totalRange))

CoverageOf(altitudes) ==
    IF Len(altitudes) = 0 THEN EmptyCoverage
    ELSE CoverageOfRange(altitudes, altitudes[Len(altitudes)] - altitudes[1])

getBladeCoverage(images) ==
    IF Len(images) = 0 THEN EmptyCoverage
    ELSE CoverageOf(SortedAltitudes(images))

\* calculateRulerIntervals ------------------------------------------------
\* zoom is counted in tenths and scaleFactor in halves
ZoomUnit == 10
FactorUnit == 2

Intervals(ruler, major, minor) ==
    [rulerIntervalCm |-> ruler, majorIntervalCm |-> major,
     minorIntervalCm |-> minor]

\* the bands with their lower limits included
RulerBandInclusive(n, d) ==
    IF n >= 100 * d THEN Intervals(500 * Scale, 1000 * Scale, 250 * Scale)
    ELSE IF n >= 50 * d THEN Intervals(100 * Scale, 500 * Scale, 50 * Scale)
    ELSE IF n >= 20 * d THEN Intervals(50 * Scale, 200 * Scale, 25 * Scale)
    ELSE IF n >= 10 * d THEN Intervals(20 * Scale, 100 * Scale, 10 * Scale)
    ELSE IF n >= 5 * d THEN Intervals(10 * Scale, 50 * Scale, 5 * Scale)
    ELSE IF n >= d THEN Intervals(5 * Scale, 20 * Scale, 2 * Scale)
    ELSE Intervals(Scale, 10 * Scale, Scale \div 2)

\* the intervals in cm for the effective GSD n / d cm per pixel
RulerBand(n, d) ==
    IF n > 100 * d THEN Intervals(500 * Scale, 1000 * Scale, 250 * Scale)
    ELSE IF n > 50 * d THEN Intervals(100 * Scale, 500 * Scale, 50 * Scale)
    ELSE IF n > 20 * d THEN Intervals(50 * Scale, 200 * Scale, 25 * Scale)
    ELSE IF n > 10 * d THEN Intervals(20 * Scale, 100 * Scale, 10 * Scale)
    ELSE IF n > 5 * d THEN Intervals(10 * Scale, 50 * Scale, 5 * Scale)
    ELSE IF n > d THEN Intervals(5 * Scale, 20 * Scale, 2 * Scale)
    ELSE Intervals(Scale, 10 * Scale, Scale \div 2)

\* intervalCm / effectiveGsdCmPerPixel, to the hundredth of a pixel
IntervalPx(intervalCm, n, d) == (intervalCm * d) \div n

RulerResult(band, n, d) ==
    [rulerIntervalCm |-> band.rulerIntervalCm,
     majorIntervalCm |-> band.majorIntervalCm,
     minorIntervalCm |-> band.minorIntervalCm,
     rulerIntervalPx |-> IntervalPx(band.rulerIntervalCm, n, d),
     majorIntervalPx |-> IntervalPx(band.majorIntervalCm, n, d),
     minorIntervalPx |-> IntervalPx(band.minorIntervalCm, n, d),
     effectiveGsdCmPerPixel |-> [num |-> n, den |-> d]]

RulerForEffective(n, d) == RulerResult(RulerBand(n, d), n, d)

\* effectiveGsdCmPerPixel = gsdCmPerPixel / (scaleFactor * zoom) is kept as
\* the fraction (gsd * ZoomUnit * FactorUnit) / (Scale * scaleFactor * zoom)
calculateRulerIntervals(gsdCmPerPixel, zoom, scaleFactor) ==
    RulerForEffective(gsdCmPerPixel * ZoomUnit * FactorUnit,
                      Scale * scaleFactor * zoom)

(***************************************************************************)
(* SpecRuler: calculateRulerIntervals over positive GSDs, zooms and scale  *)
(* factors                                                                 *)
(***************************************************************************)
\* from 0.05 to 1000 cm per pixel
RulerGsds ==
    {5, 50, Scale, 150, 5 * Scale, 550, 10 * Scale, 12 * Scale, 20 * Scale,
     30 * Scale, 50 * Scale, 70 * Scale, 100 * Scale, 150 * Scale,
     1000 * Scale}

\* zoom 0.1, 0.5, 1, 1.5 and 2
RulerZooms == {1, 5, ZoomUnit, 15, 2 * ZoomUnit}

\* scaleFactor 0.5, the default 1, and 2
RulerFactors == {1, FactorUnit, 2 * FactorUnit}

CallRulerIntervals(gsdCmPerPixel, zoom, scaleFactor) ==
    /\ bladeCall' = [fn |-> "calculateRulerIntervals",
                     gsdCmPerPixel |-> gsdCmPerPixel, zoom |-> zoom,
                     scaleFactor |-> scaleFactor,
                     result |-> calculateRulerIntervals(gsdCmPerPixel, zoom,
                                                        scaleFactor)]
    /\ UNCHANGED bladeImages

RulerNext ==
    \/ \E gsdCmPerPixel \in RulerGsds, zoom \in RulerZooms,
          scaleFactor \in RulerFactors :
          CallRulerIntervals(gsdCmPerPixel, zoom, scaleFactor)
          /\ UNCHANGED << uploadVars, resolverVars, estimatorVars, gsdCall,
                    requests, clientVars >>

InitRuler == UploadInit /\ ResolverIdle /\ EstimatorIdle /\ GsdIdle /\ BladeIdle
    /\ NoRequests /\ ClientIdle

SpecRuler == InitRuler /\ [][RulerNext]_vars

(***************************************************************************)
(* SpecBlade: the blade geometry functions applied to one set of images    *)
(***************************************************************************)
MaxBladeImages == 3

\* images without gsd, without altitude, below the ground, and at 10, 15,
\* 50 and 140 m
SmallBladeImages ==
    { NoGsdImage, BladeImage(0), BladeImage(0 - 5 * Scale),
      BladeImage(10 * Scale), BladeImage(15 * Scale), BladeImage(50 * Scale),
      BladeImage(140 * Scale) }

RECURSIVE SequencesUpTo(_, _)
SequencesUpTo(S, n) ==
    IF n = 0 THEN {<< >>}
    ELSE SequencesUpTo(S, n - 1)
         \cup {Append(q, x) : q \in SequencesUpTo(S, n - 1), x \in S}

\* k images from the altitude start on, step apart, in descending order
Descent(k, start, step) ==
    [i \in 1..k |-> BladeImage(start + (k - i) * step)]

\* the flights of many images: evenly spaced, alone, after an image below
\* the ground and before an image far above the others
LongFlights ==
    UNION { { Descent(k, 10 * Scale, step),
              << BladeImage(0 - 5 * Scale) >> \o Descent(k, 10 * Scale, step),
              Descent(k, 10 * Scale, step) \o << BladeImage(400 * Scale) >> } :
            k \in {10, 12, 19, 20, 39, 44},
            step \in {0, Scale \div 2, 5 * Scale} }

BladeImageSets(n) == SequencesUpTo(SmallBladeImages, n) \cup LongFlights

DefaultPixelsPerMeter == 3 * Scale

\* pixelsPerMeter: the default, and 10, 100, 0 and -1
PixelsPerMeterValues ==
    {DefaultPixelsPerMeter, 10 * Scale, 100 * Scale, 0, 0 - Scale}

BladeInit ==
    /\ bladeImages \in BladeImageSets(MaxBladeImages)
    /\ bladeCall = NoCall

CallBladeMetrics(pixelsPerMeter) ==
    /\ bladeCall' = [fn |-> "calculateBladeMetrics",
                     metrics |-> calculateBladeMetrics(bladeImages,
                                                       pixelsPerMeter)]
    /\ UNCHANGED bladeImages

CallBladeCoverage ==
    /\ bladeCall' = [fn |-> "getBladeCoverage",
                     coverage |-> getBladeCoverage(bladeImages)]
    /\ UNCHANGED bladeImages

\* bladeContext: the metrics of the set at the default 3 pixels per metre,
\* then the position of its image i
PositionCall(image, bladeMetrics) ==
    [fn |-> "calculateImagePosition", image |-> image,
     metrics |-> bladeMetrics,
     position |-> calculateImagePosition(image, bladeMetrics)]

CallImagePosition(i) ==
    /\ bladeCall' = PositionCall(bladeImages[i],
                                 calculateBladeMetrics(bladeImages,
                                                       DefaultPixelsPerMeter))
    /\ UNCHANGED bladeImages

BladeNext ==
    \/ \E pixelsPerMeter \in PixelsPerMeterValues :
          CallBladeMetrics(pixelsPerMeter)
          /\ UNCHANGED << uploadVars, resolverVars, estimatorVars, gsdCall,
                    requests, clientVars >>
    \/ CallBladeCoverage
          /\ UNCHANGED << uploadVars, resolverVars, estimatorVars, gsdCall,
                    requests, clientVars >>
    \/ \E i \in 1..Len(bladeImages) :
          CallImagePosition(i)
          /\ UNCHANGED << uploadVars, resolverVars, estimatorVars, gsdCall,
                    requests, clientVars >>

InitBlade ==
    /\ UploadInit /\ ResolverIdle /\ EstimatorIdle /\ GsdIdle /\ BladeInit
    /\ NoRequests /\ ClientIdle

SpecBlade == InitBlade /\ [][BladeNext]_vars

(***************************************************************************)
(* Spec: the upload handler, one request after the other                   *)
(***************************************************************************)
Init == UploadInit /\ ResolverIdle /\ EstimatorIdle /\ GsdIdle /\ BladeIdle
    /\ NoRequests /\ ClientIdle

Next ==
    \/ \E n \in 0..MaxFiles :
          StartUpload(n)
          /\ UNCHANGED << resolverVars, estimatorVars, gsdCall, bladeVars,
                    requests, clientVars >>
    \/ \E file \in Files :
          ProcessFile(file)
          /\ UNCHANGED << resolverVars, estimatorVars, gsdCall, bladeVars,
                    requests, clientVars >>
    \/ FinishUpload /\ UNCHANGED << resolverVars, estimatorVars, gsdCall, bladeVars,
                    requests, clientVars >>

Spec == Init /\ [][Next]_vars

(***************************************************************************)
(* The measurement overlay (components/turbine/carousel-measurement.tsx):  *)
(* points are whole pixels of the image, the GSD is in hundredths of a     *)
(* cm per pixel, lengths and percentages are in hundredths                 *)
(***************************************************************************)
Point(x, y) == [x |-> x, y |-> y]

\* safeNumber(value, fallback) for a number
SafeNumber(value, fallback) == IF IsNaN(value) THEN fallback ELSE value

\* Math.min and Math.max: NaN when an argument is NaN
MathMin(a, b) == IF IsNaN(a) \/ IsNaN(b) THEN NaN ELSE MinOf2(a, b)
MathMax(a, b) == IF IsNaN(a) \/ IsNaN(b) THEN NaN ELSE MaxOf2(a, b)

\* Math.sqrt of n / (Scale * Scale), in hundredths
RECURSIVE RootBetween(_, _, _)
RootBetween(n, low, high) ==
    IF high - low <= 1 THEN low
    ELSE IF ((low + high) \div 2) * ((low + high) \div 2) <= n
         THEN RootBetween(n, (low + high) \div 2, high)
         ELSE RootBetween(n, low, (low + high) \div 2)

SquareRoot(n) == RootBetween(n, 0, 100 * Scale)

\* the blade context the carousel hands to the overlay
NoContext ==
    [present |-> FALSE, minAltitude |-> 0, maxAltitude |-> 0,
     currentAltitude |-> 0, bladeLength |-> 0]

ContextOf(bladeMetrics, currentImage) ==
    [present |-> TRUE, minAltitude |-> bladeMetrics.minAltitude,
     maxAltitude |-> bladeMetrics.maxAltitude,
     currentAltitude |-> FlightHeightOr(currentImage,
                                        bladeMetrics.minAltitude),
     bladeLength |-> bladeMetrics.lengthMeters]

enhancedBladeContext(filteredImages, currentImage) ==
    ContextOf(calculateBladeMetrics(filteredImages, DefaultPixelsPerMeter),
              currentImage)

\* altitudes and heights of calculateDistance are kept as numerators over
\* 2 * Scale * Scale: midPointY * gsdCmPerPixel / 100 metres is
\* (startY + endY) * gsd / (2 * Scale * Scale)

NoPosition ==
    [present |-> FALSE, altitude |-> 0, baseAltitude |-> 0,
     relativeHeight |-> 0, bladePercentage |-> 0]

\* ((absoluteAltitude - minAltitude) / bladeLength) * 100, difference the
\* numerator of absoluteAltitude - minAltitude; a division by 0 gives
\* Infinity, -Infinity or, for 0 / 0, NaN
BladePercentage(difference, bladeLength) ==
    IF bladeLength = 0
    THEN IF difference > 0 THEN Infinity
         ELSE IF difference < 0 THEN NegInfinity ELSE NaN
    ELSE (difference * (Scale \div 2)) \div bladeLength

PositionOf(relativeHeight, currentAltitude, minAltitude, bladeLength) ==
    [present |-> TRUE,
     altitude |-> currentAltitude * 2 * Scale + relativeHeight,
     baseAltitude |-> currentAltitude,
     relativeHeight |-> relativeHeight,
     bladePercentage |->
         MathMax(0, MathMin(100 * Scale,
                            BladePercentage(
                                currentAltitude * 2 * Scale + relativeHeight
                                    - minAltitude * 2 * Scale,
                                bladeLength)))]

AbsolutePosition(startY, endY, gsdCmPerPixel, bladeContext) ==
    IF bladeContext.present
    THEN PositionOf((startY + endY) * gsdCmPerPixel,
                    SafeNumber(bladeContext.currentAltitude, 0),
                    SafeNumber(bladeContext.minAltitude, 0),
                    SafeNumber(bladeContext.bladeLength, Scale))
    ELSE NoPosition

DistanceResult(pixelDistance, gsdCmPerPixel, absolutePosition) ==
    [distance |-> (pixelDistance * gsdCmPerPixel) \div (Scale * Scale),
     distanceCm |-> (pixelDistance * gsdCmPerPixel) \div Scale,
     pixelDistance |-> pixelDistance,
     absolutePosition |-> absolutePosition,
     valid |-> pixelDistance > 2 * Scale]

InvalidDistance ==
    [distance |-> 0, distanceCm |-> 0, pixelDistance |-> 0,
     absolutePosition |-> NoPosition, valid |-> FALSE]

calculateDistance(start, end, gsdCmPerPixel, bladeContext) ==
    IF ~(gsdCmPerPixel > 0) THEN InvalidDistance
    ELSE DistanceResult(
             SquareRoot(((end.x - start.x) * (end.x - start.x)
                         + (end.y - start.y) * (end.y - start.y))
                        * Scale * Scale),
             gsdCmPerPixel,
             AbsolutePosition(start.y, end.y, gsdCmPerPixel, bladeContext))

(***************************************************************************)
(* SpecMeasure: calculateDistance for the images of one blade side         *)
(***************************************************************************)
MaxMeasureImages == 2

\* the images of the current filter: at 10 m, at 50 m, below the ground and
\* without gsd
MeasureImages ==
    { BladeImage(10 * Scale), BladeImage(50 * Scale),
      BladeImage(0 - 5 * Scale), NoGsdImage }

MeasureImageSets(n) == SequencesUpTo(MeasureImages, n) \ {<< >>}

\* the rows 0, 1, 3 and 40 and the columns 0 and 3 of the image
MeasurePoints == {Point(x, y) : x \in {0, 3}, y \in {0, 1, 3, 40}}

\* where a measurement starts: the top left corner or row 40
MeasureStarts == {Point(0, 0), Point(3, 40)}

\* no GSD, 0.5 and 2 cm per pixel
MeasureGsds == {0, Scale \div 2, 2 * Scale}

MeasureInit ==
    /\ bladeImages \in MeasureImageSets(MaxMeasureImages)
    /\ bladeCall = NoCall
    /\ measureCall = NoCall

\* a measurement drawn from start to end on image i of the filter
CallDistance(i, start, end, gsdCmPerPixel) ==
    /\ measureCall' = [fn |-> "calculateDistance", image |-> bladeImages[i],
                       start |-> start, end |-> end,
                       gsdCmPerPixel |-> gsdCmPerPixel,
                       result |->
                           calculateDistance(
                               start, end, gsdCmPerPixel,
                               enhancedBladeContext(bladeImages,
                                                    bladeImages[i]))]

\* a measurement drawn when the overlay has no blade context
CallDistanceAlone(start, end, gsdCmPerPixel) ==
    /\ measureCall' = [fn |-> "calculateDistance", image |-> NoGsdImage,
                       start |-> start, end |-> end,
                       gsdCmPerPixel |-> gsdCmPerPixel,
                       result |-> calculateDistance(start, end, gsdCmPerPixel,
                                                    NoContext)]

measureFrame ==
    << uploadVars, resolverVars, estimatorVars, gsdCall, bladeVars, requests,
       viewerVars >>

MeasureNext ==
    \/ \E i \in 1..Len(bladeImages), start \in MeasureStarts,
          end \in MeasurePoints, gsdCmPerPixel \in MeasureGsds :
          CallDistance(i, start, end, gsdCmPerPixel)
          /\ UNCHANGED measureFrame
    \/ \E start \in MeasureStarts, end \in MeasurePoints,
          gsdCmPerPixel \in MeasureGsds :
          CallDistanceAlone(start, end, gsdCmPerPixel)
          /\ UNCHANGED measureFrame

InitMeasure ==
    /\ UploadInit /\ ResolverIdle /\ EstimatorIdle /\ GsdIdle
    /\ NoRequests /\ ViewerIdle /\ MeasureInit

SpecMeasure == InitMeasure /\ [][MeasureNext]_vars

(***************************************************************************)
(* The viewer hook useEnhancedTurbine (hooks/use-enhanced-turbine.ts) with *)
(* the measurement overlay of the carousel.  The settings stay at          *)
(* DEFAULT_SETTINGS (animationDuration 300, persistMeasurements true): no  *)
(* component calls updateSettings.  An index is 0-based as in the source.  *)
(***************************************************************************)
ViewerImage(id, blade, side, flight_height, gsd_cm_per_pixel) ==
    [id |-> id, blade |-> blade, side |-> side, hasGsd |-> TRUE,
     gsd |-> [flight_height |-> flight_height,
              gsd_cm_per_pixel |-> gsd_cm_per_pixel]]

FilterState(blade, side) == [blade |-> blade, side |-> side]

\* .sort((a, b) => (a.gsd?.flight_height || 0) - (b.gsd?.flight_height || 0))
RECURSIVE InsertByFlightHeight(_, _)
InsertByFlightHeight(sorted, img) ==
    IF sorted = << >> THEN << img >>
    ELSE IF FlightHeightOr(img, 0) < FlightHeightOr(Head(sorted), 0)
    THEN << img >> \o sorted
    ELSE << Head(sorted) >> \o InsertByFlightHeight(Tail(sorted), img)

RECURSIVE SortByFlightHeight(_)
SortByFlightHeight(images) ==
    IF images = << >> THEN << >>
    ELSE InsertByFlightHeight(
             SortByFlightHeight(SubSeq(images, 1, Len(images) - 1)),
             images[Len(images)])

MatchesFilter(img, filter) ==
    img.blade = filter.blade /\ img.side = filter.side

\* the images of the filter as the carousel and refreshData select them
ImagesOfFilter(images, filter) ==
    FlatMap(images, LAMBDA img : IF MatchesFilter(img, filter)
                                 THEN << img >> ELSE << >>)

\* the memo filteredImages
FilteredImages(images, filter) ==
    SortByFlightHeight(ImagesOfFilter(images, filter))

\* filteredImages[currentImageIndex] || null
HasCurrentImage(images, filter, index) ==
    0 <= index /\ index < Len(FilteredImages(images, filter))

CurrentImageOf(images, filter, index) ==
    FilteredImages(images, filter)[index + 1]

currentImage == CurrentImageOf(allImages, currentFilter, currentImageIndex)

\* JSON.stringify writes null for NaN, JSON.parse reads null back
JsonNull == NaN - 1

JsonOfMeasurement(m) ==
    [m EXCEPT !.absolutePosition.bladePercentage =
                  IF IsNaN(@) THEN JsonNull ELSE @]

\* StorageUtils.saveMeasurements followed by loadMeasurements
JsonOfMeasurements(list) ==
    [k \in 1..Len(list) |-> JsonOfMeasurement(list[k])]

ImageIds(images) == {images[k].id : k \in 1..Len(images)}

\* the effect on [allImages]: the stored measurements of the images
LoadedMeasurements(images, storage) ==
    [id \in DOMAIN storage |->
        IF id \in ImageIds(images) THEN storage[id] ELSE << >>]

\* the overlay is mounted while the carousel has a current image; its
\* drawing state lives as long as it is mounted
DrawingKept(images, filter, index) ==
    /\ isDrawing' = (isDrawing /\ HasCurrentImage(images, filter, index))
    /\ currentMeasurement' = IF HasCurrentImage(images, filter, index)
                             THEN currentMeasurement ELSE NoDrawing

\* safeNumber(image?.gsd?.gsd_cm_per_pixel, 0)
GsdOfImage(img) == SafeNumber(img.gsd.gsd_cm_per_pixel, 0)

isValidGSD == GsdOfImage(currentImage) > 0

Drawing(start, end) == [start |-> start, end |-> end]

\* the entry handleMouseUp builds from the result of calculateDistance
NewMeasurement(id, drawing, result, gsd_used) ==
    [id |-> id, start |-> drawing.start, end |-> drawing.end,
     distance |-> SafeNumber(result.distanceCm, 0), gsd_used |-> gsd_used,
     absolutePosition |-> result.absolutePosition]

\* handleMouseUp with the test of result.valid left out
MeasurementsAfterAnyDrag(list, result, entry) == Append(list, entry)

\* if (result.valid) onMeasurementsUpdate([...measurements, newMeasurement])
MeasurementsAfterDrag(list, result, entry) ==
    IF result.valid THEN Append(list, entry) ELSE list

\* measurements.filter((m) => m.id !== id)
WithoutId(list, id) ==
    FlatMap(list, LAMBDA m : IF m.id # id THEN << m >> ELSE << >>)

\* updateMeasurements(imageId, newMeasurements) of the hook
UpdateMeasurements(imageId, newMeasurements) ==
    /\ measurements' = [measurements EXCEPT ![imageId] = newMeasurements]
    /\ localStorage' = [localStorage EXCEPT
                           ![imageId] = JsonOfMeasurements(newMeasurements)]

(***************************************************************************)
(* SpecViewer: the events of the viewer                                    *)
(***************************************************************************)
MaxMeasurements == 2
MaxAnimations == 1
MaxFetches == 1

Image1 == ViewerImage(1, "A", "TE", 10 * Scale, Scale \div 2)
Image2 == ViewerImage(2, "A", "TE", 50 * Scale, 0)
Image3 == ViewerImage(3, "B", "TE", 10 * Scale, 2 * Scale)

AllImageIds == {Image1.id, Image2.id, Image3.id}

\* what fetchTurbineData can return: nothing, the three images, or the
\* first and the third only
TurbineData == { << >>, << Image2, Image1, Image3 >>, << Image1, Image3 >> }

Filters == {FilterState("A", "TE"), FilterState("B", "TE")}

\* the indices a caller passes to navigateToImage
NavigationIndices == (0 - 1)..2

\* where the mouse is pressed, and where it moves or is released
DownPoints == {Point(0, 0)}
MovePoints == {Point(1, 1), Point(3, 0)}

\* the hook after construction: the useState defaults and the pending
\* fetch of the mount effect
HookMounted ==
    /\ allImages = << >>
    /\ currentFilter = FilterState("A", "TE")
    /\ currentImageIndex = 0
    /\ animations = << >>
    /\ measurements = [id \in AllImageIds |-> << >>]
    /\ isDrawing = FALSE
    /\ currentMeasurement = NoDrawing
    /\ fetches = << [kind |-> "load", currentFilter |-> FilterState("A", "TE"),
                     currentImageIndex |-> 0] >>

ViewerInit ==
    /\ HookMounted
    /\ localStorage = [id \in AllImageIds |-> << >>]
    /\ now = 0
    /\ lastEvent = "mount"

\* the page is loaded again: a new hook, the same localStorage
ReloadPage ==
    /\ allImages' = << >>
    /\ currentFilter' = FilterState("A", "TE")
    /\ currentImageIndex' = 0
    /\ animations' = << >>
    /\ measurements' = [id \in AllImageIds |-> << >>]
    /\ isDrawing' = FALSE
    /\ currentMeasurement' = NoDrawing
    /\ fetches' = << [kind |-> "load", currentFilter |-> FilterState("A", "TE"),
                      currentImageIndex |-> 0] >>
    /\ lastEvent' = "mount"
    /\ UNCHANGED << localStorage, now >>

\* refreshData up to its await
RefreshData ==
    /\ Len(fetches) < MaxFetches
    /\ fetches' = Append(fetches, [kind |-> "refresh",
                                   currentFilter |-> currentFilter,
                                   currentImageIndex |-> currentImageIndex])
    /\ lastEvent' = "refreshData"
    /\ UNCHANGED << allImages, currentFilter, currentImageIndex, animations,
                    measurements, localStorage, isDrawing, currentMeasurement,
                    now >>

\* the index after refreshData resumed with the filter and index it was
\* called with; the mount effect leaves the index alone
IndexAfterFetch(fetch, images) ==
    IF fetch.kind = "refresh"
       /\ fetch.currentImageIndex
            >= Len(ImagesOfFilter(images, fetch.currentFilter))
    THEN 0 ELSE currentImageIndex

\* fetchTurbineData resolves with images: setAllImages, the index check of
\* refreshData and the effect on [allImages]
FetchResolves(k, images) ==
    /\ allImages' = images
    /\ currentImageIndex' = IndexAfterFetch(fetches[k], images)
    /\ measurements' = IF Len(images) > 0
                       THEN LoadedMeasurements(images, localStorage)
                       ELSE measurements
    /\ fetches' = SubSeq(fetches, 1, k - 1)
                      \o SubSeq(fetches, k + 1, Len(fetches))
    /\ DrawingKept(images, currentFilter,
                   IndexAfterFetch(fetches[k], images))
    /\ lastEvent' = "fetchTurbineData"
    /\ UNCHANGED << currentFilter, animations, localStorage, now >>

\* Math.max(0, Math.min(index, filteredImages.length - 1))
NewIndex(index) ==
    MaxOf2(0, MinOf2(index,
                     Len(FilteredImages(allImages, currentFilter)) - 1))

\* navigateToImage(index, animate)
navigateToImage(index, animate) ==
    /\ IF animate
       THEN /\ Len(animations) < MaxAnimations
            /\ animations' = Append(animations,
                                    [end |-> NewIndex(index),
                                     value |-> currentImageIndex])
            /\ UNCHANGED << currentImageIndex, isDrawing, currentMeasurement >>
       ELSE /\ currentImageIndex' = NewIndex(index)
            /\ DrawingKept(allImages, currentFilter, NewIndex(index))
            /\ UNCHANGED animations
    /\ UNCHANGED << allImages, currentFilter, measurements, localStorage,
                    now, fetches >>

NavigateToImage(index, animate) ==
    /\ navigateToImage(index, animate)
    /\ lastEvent' = "navigateToImage"

goToPrevious ==
    /\ currentImageIndex > 0
    /\ navigateToImage(currentImageIndex - 1, TRUE)
    /\ lastEvent' = "goToPrevious"

goToNext ==
    /\ currentImageIndex < Len(FilteredImages(allImages, currentFilter)) - 1
    /\ navigateToImage(currentImageIndex + 1, TRUE)
    /\ lastEvent' = "goToNext"

\* the values between two indices
Between(a, b) == MinOf2(a, b)..MaxOf2(a, b)

\* a frame of animateValue with progress < 1: onUpdate with a rounded
\* value that has come no nearer to the start
AnimationFrame(k, value) ==
    /\ value \in Between(animations[k].value, animations[k].end)
    /\ currentImageIndex' = value
    /\ animations' = [animations EXCEPT ![k].value = value]
    /\ DrawingKept(allImages, currentFilter, value)
    /\ lastEvent' = "animationFrame"
    /\ UNCHANGED << allImages, currentFilter, measurements, localStorage,
                    now, fetches >>

\* the frame with progress 1: onUpdate(end), then onComplete
AnimationCompletes(k) ==
    /\ currentImageIndex' = animations[k].end
    /\ animations' = SubSeq(animations, 1, k - 1)
                         \o SubSeq(animations, k + 1, Len(animations))
    /\ DrawingKept(allImages, currentFilter, animations[k].end)
    /\ lastEvent' = "animationComplete"
    /\ UNCHANGED << allImages, currentFilter, measurements, localStorage,
                    now, fetches >>

handleFilterChange(newFilter) ==
    /\ currentFilter' = newFilter
    /\ currentImageIndex' = 0
    /\ DrawingKept(allImages, newFilter, 0)
    /\ lastEvent' = "handleFilterChange"
    /\ UNCHANGED << allImages, animations, measurements, localStorage, now,
                    fetches >>

OverlayMounted == HasCurrentImage(allImages, currentFilter, currentImageIndex)

handleMouseDown(coords) ==
    /\ OverlayMounted
    /\ isValidGSD
    /\ isDrawing' = TRUE
    /\ currentMeasurement' = Drawing(coords, coords)
    /\ lastEvent' = "handleMouseDown"
    /\ UNCHANGED << allImages, currentFilter, currentImageIndex, animations,
                    measurements, localStorage, now, fetches >>

handleMouseMove(coords) ==
    /\ OverlayMounted
    /\ isDrawing /\ isValidGSD
    /\ currentMeasurement' = Drawing(currentMeasurement.start, coords)
    /\ lastEvent' = "handleMouseMove"
    /\ UNCHANGED << allImages, currentFilter, currentImageIndex, animations,
                    measurements, localStorage, isDrawing, now, fetches >>

\* calculateDistance as the overlay of the current image calls it
DistanceOnCurrentImage(start, end) ==
    calculateDistance(start, end, GsdOfImage(currentImage),
                      enhancedBladeContext(
                          ImagesOfFilter(allImages, currentFilter),
                          currentImage))

handleMouseUp(coords) ==
    /\ OverlayMounted
    /\ isDrawing /\ isValidGSD
    /\ now < MaxMeasurements
    /\ UpdateMeasurements(
           currentImage.id,
           MeasurementsAfterDrag(
               measurements[currentImage.id],
               DistanceOnCurrentImage(currentMeasurement.start, coords),
               NewMeasurement(
                   now + 1, Drawing(currentMeasurement.start, coords),
                   DistanceOnCurrentImage(currentMeasurement.start, coords),
                   GsdOfImage(currentImage))))
    /\ now' = now + 1
    /\ isDrawing' = FALSE
    /\ currentMeasurement' = NoDrawing
    /\ lastEvent' = "handleMouseUp"
    /\ UNCHANGED << allImages, currentFilter, currentImageIndex, animations,
                    fetches >>

\* onMouseLeave of the drawing surface, rendered only with a valid GSD
handleMouseLeave ==
    /\ OverlayMounted
    /\ isValidGSD
    /\ isDrawing' = FALSE
    /\ currentMeasurement' = NoDrawing
    /\ lastEvent' = "handleMouseLeave"
    /\ UNCHANGED << allImages, currentFilter, currentImageIndex, animations,
                    measurements, localStorage, now, fetches >>

\* deleteMeasurement(id) of the overlay for entry k of the list
deleteMeasurement(k) ==
    /\ OverlayMounted
    /\ isValidGSD
    /\ UpdateMeasurements(
           currentImage.id,
           WithoutId(measurements[currentImage.id],
                     measurements[currentImage.id][k].id))
    /\ lastEvent' = "deleteMeasurement"
    /\ UNCHANGED << allImages, currentFilter, currentImageIndex, animations,
                    isDrawing, currentMeasurement, now, fetches >>

\* clearAllMeasurements of the overlay and onClearMeasurements of the page
clearAllMeasurements ==
    /\ OverlayMounted
    /\ UpdateMeasurements(currentImage.id, << >>)
    /\ lastEvent' = "clearAllMeasurements"
    /\ UNCHANGED << allImages, currentFilter, currentImageIndex, animations,
                    isDrawing, currentMeasurement, now, fetches >>

\* resetView of the hook: if (currentImage) ...
resetView ==
    /\ OverlayMounted
    /\ measurements' = [measurements EXCEPT ![currentImage.id] = << >>]
    /\ localStorage' = [localStorage EXCEPT ![currentImage.id] = << >>]
    /\ lastEvent' = "resetView"
    /\ UNCHANGED << allImages, currentFilter, currentImageIndex, animations,
                    isDrawing, currentMeasurement, now, fetches >>

viewerFrame ==
    << uploadVars, resolverVars, estimatorVars, gsdCall, bladeVars, requests,
       measureCall >>

ViewerNext ==
    \/ ReloadPage /\ UNCHANGED viewerFrame
    \/ RefreshData /\ UNCHANGED viewerFrame
    \/ \E k \in 1..Len(fetches), images \in TurbineData :
          FetchResolves(k, images) /\ UNCHANGED viewerFrame
    \/ \E index \in NavigationIndices, animate \in BOOLEAN :
          NavigateToImage(index, animate) /\ UNCHANGED viewerFrame
    \/ goToPrevious /\ UNCHANGED viewerFrame
    \/ goToNext /\ UNCHANGED viewerFrame
    \/ \E k \in 1..Len(animations), value \in NavigationIndices :
          AnimationFrame(k, value) /\ UNCHANGED viewerFrame
    \/ \E k \in 1..Len(animations) :
          AnimationCompletes(k) /\ UNCHANGED viewerFrame
    \/ \E newFilter \in Filters :
          handleFilterChange(newFilter) /\ UNCHANGED viewerFrame
    \/ \E coords \in DownPoints :
          handleMouseDown(coords) /\ UNCHANGED viewerFrame
    \/ \E coords \in MovePoints :
          handleMouseMove(coords) /\ UNCHANGED viewerFrame
    \/ \E coords \in MovePoints :
          handleMouseUp(coords) /\ UNCHANGED viewerFrame
    \/ handleMouseLeave /\ UNCHANGED viewerFrame
    \/ \E k \in 1..MaxMeasurements :
          /\ OverlayMounted
          /\ k <= Len(measurements[currentImage.id])
          /\ deleteMeasurement(k)
          /\ UNCHANGED viewerFrame
    \/ clearAllMeasurements /\ UNCHANGED viewerFrame
    \/ resetView /\ UNCHANGED viewerFrame

InitViewer ==
    /\ UploadInit /\ ResolverIdle /\ EstimatorIdle /\ GsdIdle /\ BladeIdle
    /\ NoRequests /\ measureCall = NoCall /\ ViewerInit

SpecViewer == InitViewer /\ [][ViewerNext]_vars

(***************************************************************************)
(* SpecConcurrent: two POST requests on the same public/turbine-data.json; *)
(* the handler is async and awaits between the load, each file and the     *)
(* write, so the steps of the two requests interleave                      *)
(***************************************************************************)
MaxRequestFiles == 2

Requests == {1, 2}

IdleRequest ==
    [pc |-> "idle", existingImages |-> << >>, fileCount |-> 0,
     fileIndex |-> 0, processedImages |-> << >>, errors |-> << >>,
     response |-> NoResponse]

\* a file with a manual distance, a file named after its blade with a
\* subject distance and an altitude, and a file without any distance
ConcurrentFiles ==
    {file \in Files :
        /\ file.io = "ok"
        /\ file.name = "photo.jpg" /\ file.metadata.present =>
              /\ file.metadata.manualDistance = 30 * Scale
              /\ PresentFields(file.exif) = {}
        /\ file.name = "photo.jpg" /\ ~file.metadata.present =>
              PresentFields(file.exif) = {}
        /\ file.name # "photo.jpg" =>
              PresentFields(file.exif)
                  = {"SubjectDistance", "XMP:RelativeAltitude"}}

\* lines 363-383 for request r: the snapshot is loaded and the loop starts
LoadRequest(r, n) ==
    /\ requests[r].pc = "idle"
    /\ requests' = [requests EXCEPT ![r] =
                        [IdleRequest EXCEPT !.pc = "loop",
                                            !.existingImages = stored,
                                            !.fileCount = n]]
    /\ UNCHANGED stored

\* processedImages.push or errors.push of request q for the outcome o
CollectRequest(q, o) ==
    [q EXCEPT !.fileIndex = q.fileIndex + 1,
              !.processedImages =
                  IF o.error = "no" THEN Append(q.processedImages, o.image)
                  ELSE q.processedImages,
              !.errors =
                  IF o.error = "no" THEN q.errors
                  ELSE Append(q.errors, o.error)]

\* lines 385-541 for request r: one iteration of the loop
ProcessRequestFile(r, file) ==
    /\ requests[r].pc = "loop"
    /\ requests[r].fileIndex < requests[r].fileCount
    /\ requests' = [requests EXCEPT ![r] =
                        CollectRequest(requests[r],
                                       ProcessOne(file,
                                                  requests[r].existingImages))]
    /\ UNCHANGED stored

\* the collection request q writes
WrittenBy(q) == SortByHeight(q.existingImages \o q.processedImages)

\* lines 543-578 for request r: nothing processed is a 400; else the
\* snapshot and the processed images are written back
FinishRequest(r) ==
    /\ requests[r].pc = "loop"
    /\ requests[r].fileIndex = requests[r].fileCount
    /\ IF Len(requests[r].processedImages) = 0
       THEN /\ requests' = [requests EXCEPT ![r].pc = "done",
                               ![r].response =
                                   [NoResponse EXCEPT
                                       !.status = 400,
                                       !.errors = requests[r].errors]]
            /\ UNCHANGED stored
       ELSE /\ stored' = WrittenBy(requests[r])
            /\ requests' = [requests EXCEPT ![r].pc = "done",
                               ![r].response =
                                   [status |-> 200,
                                    processed |->
                                        Len(requests[r].processedImages),
                                    total_images |->
                                        Len(requests[r].existingImages)
                                        + Len(requests[r].processedImages),
                                    errors |-> requests[r].errors,
                                    interpolated_count |-> 0]]

requestFrame ==
    << pc, existingImages, fileCount, fileIndex, lastFile, processedImages,
       errors, interpolationLog, response, resolverVars, estimatorVars,
       gsdCall, bladeVars, clientVars >>

ConcurrentNext ==
    \/ \E r \in Requests, n \in 1..MaxRequestFiles :
          LoadRequest(r, n) /\ UNCHANGED requestFrame
    \/ \E r \in Requests, file \in ConcurrentFiles :
          ProcessRequestFile(r, file) /\ UNCHANGED requestFrame
    \/ \E r \in Requests :
          FinishRequest(r) /\ UNCHANGED requestFrame

InitConcurrent ==
    /\ UploadInit /\ ResolverIdle /\ EstimatorIdle /\ GsdIdle /\ BladeIdle
    /\ requests = [r \in Requests |-> IdleRequest]
    /\ ClientIdle

SpecConcurrent == InitConcurrent /\ [][ConcurrentNext]_vars

(***************************************************************************)
(* SpecInterpolation: one request sent when public/turbine-data.json       *)
(* already holds images                                                    *)
(***************************************************************************)
MaxSeed == 5

\* a stored image of an earlier request
SeedImage(blade, side, d, source, confidence) ==
    [blade |-> blade, side |-> side,
     gsd |-> [gsd_width |-> GsdScale \div 20, gsd_height |-> GsdScale \div 20,
              gsd_cm_per_pixel |-> GsdScale \div 20, flight_height |-> 0,
              distance_to_blade |-> d, altitude_source |-> "estimated",
              distance_source |-> source, distance_confidence |-> confidence]]

SeedImages ==
    << SeedImage("A", "TE", 30 * Scale, "manual_input", "high"),
       SeedImage("A", "TE", 28 * Scale, "interpolated_from_5_images",
                 "medium"),
       SeedImage("B", "TE", 20 * Scale, "EXIF:UserComment", "high"),
       SeedImage("A", "TE", 30 * Scale, "interpolated_from_2_images",
                 "low") >>

\* k copies of img
RECURSIVE Copies(_, _)
Copies(img, k) == IF k = 0 THEN << >> ELSE << img >> \o Copies(img, k - 1)

\* the collections of at most MaxSeed images: c[j] copies of SeedImages[j]
\* (every seed image flies at the same height, so every order is sorted)
SeedCollections ==
    { Flatten([j \in 1..Len(SeedImages) |-> Copies(SeedImages[j], c[j])], 1) :
      c \in {cc \in [1..Len(SeedImages) -> 0..MaxSeed] :
                cc[1] + cc[2] + cc[3] + cc[4] <= MaxSeed} }

\* the files of the request: without a distance (blade A and blade B), with
\* a manual distance, with a distance tag, and without a distance and with
\* a focal length of 0 mm
InterpolationFiles ==
    { File([name |-> "photo.jpg", metadata |-> md, width |-> 0, height |-> 0],
           tags, "ok") :
      md \in { NoMetadata,
               [present |-> TRUE, blade |-> "A", side |-> "TE",
                manualDistance |-> 30 * Scale] },
      tags \in { [f \in {} |-> Undefined], "FocalLength" :> Str("0 mm"),
                 "SubjectDistance" :> Num(30 * Scale) } }
    \cup { File([name |-> "DJI_0002_B_TE_.JPG", metadata |-> NoMetadata,
                 width |-> 0, height |-> 0], [f \in {} |-> Undefined], "ok") }

InitInterpolation ==
    /\ stored \in SeedCollections
    /\ pc = "idle"
    /\ existingImages = << >>
    /\ fileCount = 0
    /\ fileIndex = 0
    /\ lastFile = NoFile
    /\ processedImages = << >>
    /\ errors = << >>
    /\ interpolationLog = 0
    /\ response = NoResponse
    /\ ResolverIdle
    /\ EstimatorIdle
    /\ GsdIdle
    /\ BladeIdle
    /\ NoRequests /\ ClientIdle

\* the one request
StartSeeded(n) == pc = "idle" /\ BeginRequest(n)

InterpolationNext ==
    \/ \E n \in 0..MaxFiles :
          StartSeeded(n)
          /\ UNCHANGED << resolverVars, estimatorVars, gsdCall, bladeVars,
                    requests, clientVars >>
    \/ \E file \in InterpolationFiles :
          ProcessFile(file)
          /\ UNCHANGED << resolverVars, estimatorVars, gsdCall, bladeVars,
                    requests, clientVars >>
    \/ FinishUpload /\ UNCHANGED << resolverVars, estimatorVars, gsdCall, bladeVars,
                    requests, clientVars >>

SpecInterpolation == InitInterpolation /\ [][InterpolationNext]_vars

(***************************************************************************)
(* Properties of the resolvers and of the validation (SpecResolver)        *)
(***************************************************************************)
\* the distance-related tags a bag holds
DistanceTags(exif) == PresentFields(exif) \cap DistanceFieldNames

IsSentinel(resolution) ==
    resolution.distance = 0 /\ resolution.source = "not_found"

Among(images, image) == \E i \in 1..Len(images) : images[i] = image

\* C1: a bag whose only distance-related tag is FocusDistance never yields a
\* trusted blade distance: findDistanceInExif returns the not_found sentinel
\* or the low-confidence source "FocusDistance"; every image that carries
\* that source gets errors and isValid = FALSE from validateTurbineImages
\* and canMeasure = FALSE from validateSingleImage; and extractBladeDistance
\* returns not_found.
C1_FocusDistanceNeverTrusted ==
    DistanceTags(exifData) = {"FocusDistance"} =>
        /\ readResult # Pending =>
              \/ IsSentinel(readResult)
              \/ /\ readResult.source = "FocusDistance"
                 /\ readResult.confidence = "low"
        /\ checked.done =>
              /\ ~checked.validation.isValid
              /\ Len(checked.validation.errors) > 0
              /\ ~checked.single.canMeasure
              /\ ~Among(checked.ready, checked.image)
        /\ uploadResult # Pending => IsSentinel(uploadResult)

\* C1 witness: FocusDistance alone resolved a distance at read time, the
\* image built on it has a plausible GSD and was validated after a good
\* image, and the upload resolver has answered.
C1_Witness ==
    /\ DistanceTags(exifData) = {"FocusDistance"}
    /\ readResult.source = "FocusDistance"
    /\ readResult.distance = 30 * Scale
    /\ uploadResult.source = "not_found"
    /\ checked.done
    /\ Len(checked.images) = 2
    /\ checked.image.gsd.gsd_cm_per_pixel = GsdScale \div 20

\* C2: a bag whose only distance-related tag is HyperfocalDistance is never
\* accepted for measurement: an image that carries the resolved source is
\* an error of validateTurbineImages, is left out by
\* getMeasurementReadyImages and is returned by
\* getImagesNeedingReprocessing.
C2_HyperfocalNeverAccepted ==
    DistanceTags(exifData) = {"HyperfocalDistance"} /\ checked.done =>
        /\ ~checked.validation.isValid
        /\ ~Among(checked.ready, checked.image)
        /\ Among(checked.reprocess, checked.image)

\* the distance N of a "distance: N m" statement in UserComment, 0 when the
\* tag holds none
StatedInUserComment(exif) ==
    IF exif["UserComment"] = Str("distance: 42m") THEN 42 * Scale
    ELSE IF exif["UserComment"] = Str("Distance: 500 m") THEN 500 * Scale
    ELSE 0

\* C3: when UserComment states "distance: N m" with 0 < N < 1000, both
\* resolvers return N with confidence high, whatever else the bag holds.
C3_UserCommentWins ==
    StatedInUserComment(exifData) # 0 =>
        /\ readResult # Pending =>
              /\ readResult.distance = StatedInUserComment(exifData)
              /\ readResult.confidence = "high"
        /\ uploadResult # Pending =>
              /\ uploadResult.distance = StatedInUserComment(exifData)
              /\ uploadResult.confidence = "high"

\* C4: when the only distance-related tag is a subject-distance tag that
\* holds 30, as a number or as the text "30", findDistanceInExif returns
\* 30 m, the tag's name and confidence medium.
C4_SubjectDistanceResolved ==
    \A f \in {"SubjectDistance", "EXIF:SubjectDistance",
              "Composite:SubjectDistance", "XMP:SubjectDistance"} :
        /\ DistanceTags(exifData) = {f}
        /\ exifData[f] \in {Num(30 * Scale), Str("30")}
        /\ readResult # Pending
        => readResult = [distance |-> 30 * Scale, source |-> f,
                         confidence |-> "medium"]

\* the distance a text value states within the read-time bound (0, 1000)
ReadStated(v) ==
    CASE v = Str("distance: 42m") -> 42 * Scale
      [] v = Str("Distance: 500 m") -> 500 * Scale
      [] v = Str("dist 0 5m away") -> 5 * Scale
      [] v = Str("blade: 0.1m") -> Scale \div 10
      [] v = Str("200m") -> 200 * Scale
      [] OTHER -> 0

\* the distance a text value states within the upload-time bound (0.1, 200)
UploadStated(v) ==
    CASE v = Str("distance: 42m") -> 42 * Scale
      [] v = Str("dist 0 5m away") -> 5 * Scale
      [] OTHER -> 0

\* some tag findDistanceInExif reads holds a distance within its bound
ReadYields(exif) ==
    \/ \E f \in {"UserComment", "EXIF:UserComment", "ImageDescription",
                 "XMP:Description", "Comments"} : ReadStated(exif[f]) # 0
    \/ \E f \in {"SubjectDistance", "EXIF:SubjectDistance",
                 "Composite:SubjectDistance", "XMP:SubjectDistance",
                 "FocusDistance", "HyperfocalDistance"} :
          /\ exif[f].t = "number"
          /\ exif[f].n > 0
          /\ exif[f].n < 1000 * Scale

UploadCommentSources ==
    {"EXIF:UserComment", "UserComment", "Comment", "XMP:UserComment",
     "IPTC:SpecialInstructions", "ImageDescription", "XMP:Description"}

UploadSubjectSources ==
    {"EXIF:SubjectDistance", "SubjectDistance", "Camera:SubjectDistance"}

\* some tag extractBladeDistance reads holds a distance within its bound
UploadYields(exif) ==
    \/ \E f \in UploadCommentSources : UploadStated(exif[f]) # 0
    \/ \E f \in UploadSubjectSources :
          exif[f] \in {Num(30 * Scale), Str("30")}

\* C5: each resolver returns the sentinel (distance 0, source not_found) or
\* a distance inside its bound, distance 0 exactly with source not_found:
\* (0, 1000) at read time, (0.1, 200) for a comment and (0.5, 100) for a
\* subject distance at upload time; and it returns the sentinel only when
\* no tag it reads holds a distance inside the bound, so a match that is
\* out of bound does not end the search.
C5_ResultsWithinBounds ==
    /\ readResult # Pending =>
          /\ readResult.distance = 0 <=> readResult.source = "not_found"
          /\ readResult.source # "not_found" =>
                readResult.distance > 0 /\ readResult.distance < 1000 * Scale
          /\ readResult.source = "not_found" <=> ~ReadYields(exifData)
    /\ uploadResult # Pending =>
          /\ uploadResult.distance = 0 <=> uploadResult.source = "not_found"
          /\ uploadResult.source \in
                UploadCommentSources \cup UploadSubjectSources
                \cup {"not_found"}
          /\ uploadResult.source \in UploadCommentSources =>
                /\ uploadResult.distance > Scale \div 10
                /\ uploadResult.distance < 200 * Scale
          /\ uploadResult.source \in UploadSubjectSources =>
                /\ uploadResult.distance > Scale \div 2
                /\ uploadResult.distance < 100 * Scale
          /\ uploadResult.source = "not_found" <=> ~UploadYields(exifData)

\* C5 witness: UserComment matches with 1000 m, out of both bounds, and
\* both resolvers went on to SubjectDistance.
C5_Witness ==
    /\ exifData["UserComment"] = Str("range=1000m")
    /\ exifData["SubjectDistance"] = Num(30 * Scale)
    /\ readResult.source = "SubjectDistance"
    /\ readResult.distance = 30 * Scale
    /\ uploadResult.source = "SubjectDistance"
    /\ uploadResult.distance = 30 * Scale

(***************************************************************************)
(* Properties of the upload handler (Spec)                                 *)
(***************************************************************************)
DistancePlausible(image) ==
    /\ image.gsd.distance_to_blade >= Scale \div 2
    /\ image.gsd.distance_to_blade <= 100 * Scale

\* the file carries no distance tag and no manual distance, and no image of
\* the snapshot has a usable distance
Unresolvable(file, existing) ==
    /\ file.io = "ok"
    /\ DistanceTags(file.exif) = {}
    /\ ~(file.metadata.present /\ file.metadata.manualDistance > 0)
    /\ \A i \in 1..Len(existing) :
          \/ existing[i].gsd.distance_to_blade <= 0
          \/ existing[i].gsd.distance_confidence = "low"

\* an iteration of the loop on an unresolvable file adds one error and no
\* image
RejectsUnresolvable ==
    pc = "loop" /\ fileIndex' = fileIndex + 1
    /\ Unresolvable(lastFile', existingImages)
    => /\ processedImages' = processedImages
       /\ errors' = Append(errors, "unresolved_distance")
       /\ stored' = stored

\* C6: every image an upload processes or stores has a blade distance in
\* [0.5, 100] m, whether it comes from the metadata, the manual input or
\* the interpolation; and a file without distance tag and manual distance,
\* uploaded when no stored image has a usable distance, yields an error and
\* no image.
C6_StoredDistancePlausible ==
    /\ [](/\ \A i \in 1..Len(stored) : DistancePlausible(stored[i])
          /\ \A i \in 1..Len(processedImages) :
                DistancePlausible(processedImages[i]))
    /\ [][RejectsUnresolvable]_vars

\* C6 witness: a request of two files has ended; the file without any
\* distance was rejected and the file with the manual distance 30 m is the
\* one stored image.
C6_Witness ==
    /\ pc = "done"
    /\ response.status = 200
    /\ errors = << "unresolved_distance" >>
    /\ Len(stored) = 1
    /\ stored[1].gsd.distance_source = "manual_input"
    /\ stored[1].gsd.distance_to_blade = 30 * Scale

\* C7: every stored image has a gsd_cm_per_pixel that is a number in
\* [0.001, 50] cm/pixel, whatever the focal-length tag holds.
C7_StoredGsdPlausible ==
    \A i \in 1..Len(stored) :
        /\ IsFiniteNum(stored[i].gsd.gsd_cm_per_pixel)
        /\ stored[i].gsd.gsd_cm_per_pixel >= GsdScale \div 1000
        /\ stored[i].gsd.gsd_cm_per_pixel <= 50 * GsdScale

\* C8: a failing file never ends the batch: inside the loop and after it
\* every file processed so far has given one image or one error, the
\* request ends only when all its files are processed, and when an image
\* was processed the response is a 200 that returns the errors of the other
\* files while the processed images are in the stored collection.
C8_BatchSurvivesErrors ==
    /\ pc \in {"loop", "done"} =>
          /\ Len(processedImages) + Len(errors) = fileIndex
          /\ fileIndex <= fileCount
    /\ pc = "done" => fileIndex = fileCount
    /\ pc = "done" /\ Len(processedImages) > 0 =>
          /\ response.status = 200
          /\ response.errors = errors
          /\ response.processed = Len(processedImages)
          /\ Len(stored) = Len(existingImages) + Len(processedImages)
          /\ \A i \in 1..Len(processedImages) :
                Among(stored, processedImages[i])

\* C8 witness: in a batch of two files the first failed, the second, with
\* a manual distance, was processed and stored, and the response carries
\* the error.
C8_Witness ==
    /\ pc = "done"
    /\ fileCount = 2
    /\ errors = << "unresolved_distance" >>
    /\ Len(processedImages) = 1
    /\ lastFile.metadata.manualDistance = 30 * Scale
    /\ DistanceTags(lastFile.exif) = {}
    /\ response.status = 200
    /\ response.errors = << "unresolved_distance" >>
    /\ Among(stored, processedImages[1])

(***************************************************************************)
(* Properties of the GSD calculators (SpecGsd)                             *)
(***************************************************************************)
\* C9: each of calculateGSDForTurbine, calculateGSD and
\* calculateEstimatedGSD called with a distance <= 0 fails with the
\* invalid-distance error.
C9_NonPositiveDistanceFails ==
    gsdCall.fn # "none" /\ gsdCall.distance <= 0 =>
        gsdCall.result.threw = "InvalidDistance"

(***************************************************************************)
(* Properties of the estimator (SpecEstimator)                             *)
(***************************************************************************)
UsableAt(i) ==
    /\ population[i].gsd.distance_to_blade > 0
    /\ population[i].gsd.distance_confidence # "low"

\* the positions of the images with the blade and the side of the call and
\* a usable distance
SameBladeSample ==
    {i \in 1..Len(population) :
        /\ UsableAt(i)
        /\ population[i].blade = estimate.blade
        /\ population[i].side = estimate.side}

\* the positions of the sample the policy prescribes
PolicySample ==
    IF Cardinality(SameBladeSample) >= 3 THEN SameBladeSample
    ELSE {i \in 1..Len(population) : UsableAt(i)}

\* C10: the sample of calculateDistanceStatistics is the usable images of
\* the blade and side when they are at least 3, and every usable image of
\* the population otherwise; validDistances holds the distances of that
\* sample in ascending order and the confidence is the one of that sample.
C10_SampleFollowsPolicy ==
    estimate.done =>
        LET vd == estimate.stats.validDistances
            n == Cardinality(PolicySample)
        IN  /\ Len(vd) = n
            /\ \A d \in {population[i].gsd.distance_to_blade :
                            i \in 1..Len(population)} :
                  Cardinality({k \in 1..Len(vd) : vd[k] = d})
                  = Cardinality({i \in PolicySample :
                                    population[i].gsd.distance_to_blade = d})
            /\ \A k \in 1..(Len(vd) - 1) : vd[k] <= vd[k + 1]
            /\ estimate.stats.confidence =
                  IF n >= 5
                  THEN (IF LowVariation(vd) THEN "high" ELSE "medium")
                  ELSE IF n < 3 THEN "low" ELSE "medium"

\* C10 witness: two usable images of the blade and side and two of another
\* blade: the sample is all four, in ascending order.
C10_Witness ==
    /\ estimate.done
    /\ Cardinality(SameBladeSample) = 2
    /\ Len(estimate.stats.validDistances) = 4
    /\ estimate.stats.validDistances[1] = 20 * Scale
    /\ estimate.stats.validDistances[4] = 30 * Scale
    /\ population[1].gsd.distance_to_blade = 30 * Scale
    /\ estimate.stats.confidence = "medium"

\* the distances of the sample the policy prescribes, as a bag: how many
\* images of the sample stand at the distance d
SampleCount(d) ==
    Cardinality({i \in PolicySample :
                    population[i].gsd.distance_to_blade = d})

SampleDistances ==
    {population[i].gsd.distance_to_blade : i \in PolicySample}

\* how many distances of the sample are below d, and at most d
SampleBelow(d) ==
    Cardinality({i \in PolicySample :
                    population[i].gsd.distance_to_blade < d})
SampleAtMost(d) ==
    Cardinality({i \in PolicySample :
                    population[i].gsd.distance_to_blade <= d})

\* the statement of C11 as it stands: the median of a non-empty sample is
\* the element at index floor(n/2), counted from 0, of the ascending
\* sample, and for an even n it is the lower of the two central values:
\* at most n/2 - 1 distances of the sample are below it.  The estimator
\* contradicts the second part.
C11_MedianLowerMiddle ==
    estimate.done /\ Cardinality(PolicySample) > 0 =>
        LET n == Cardinality(PolicySample)
            vd == estimate.stats.validDistances
            median == estimate.stats.medianDistance
        IN  /\ median = vd[(n \div 2) + 1]
            /\ n % 2 = 0 =>
                  /\ SampleBelow(median) <= (n \div 2) - 1
                  /\ SampleAtMost(median) >= n \div 2

\* C11 as amended: the median of a non-empty sample is a distance of the
\* sample, the element at index floor(n/2), counted from 0, of the
\* ascending sample: at most floor(n/2) distances of the sample are below
\* it and at least floor(n/2) + 1 are at most it, so that for an even n it
\* is the upper of the two central values.
C11_MedianUpperMiddle ==
    estimate.done /\ Cardinality(PolicySample) > 0 =>
        LET n == Cardinality(PolicySample)
            vd == estimate.stats.validDistances
            median == estimate.stats.medianDistance
        IN  /\ median \in SampleDistances
            /\ median = vd[(n \div 2) + 1]
            /\ SampleBelow(median) <= n \div 2
            /\ SampleAtMost(median) >= (n \div 2) + 1

\* C11 witness: a sample of four distances, 20, 20, 30, 30 m: the median
\* is 30 m, the upper of the two central values.
C11_Witness ==
    /\ estimate.done
    /\ Cardinality(PolicySample) = 4
    /\ SampleCount(20 * Scale) = 2
    /\ SampleCount(30 * Scale) = 2
    /\ estimate.stats.medianDistance = 30 * Scale

\* every distance of PopulationImages is a multiple of 2 m
DistanceUnit == 2 * Scale

\* the sum of the distances of the sample, and of their squares, counted in
\* DistanceUnit, over the positions from i on
RECURSIVE SampleSum(_)
SampleSum(i) ==
    IF i > Len(population) THEN 0
    ELSE (IF i \in PolicySample
          THEN population[i].gsd.distance_to_blade \div DistanceUnit ELSE 0)
         + SampleSum(i + 1)

RECURSIVE SampleSquares(_)
SampleSquares(i) ==
    IF i > Len(population) THEN 0
    ELSE (IF i \in PolicySample
          THEN (population[i].gsd.distance_to_blade \div DistanceUnit)
               * (population[i].gsd.distance_to_blade \div DistanceUnit)
          ELSE 0)
         + SampleSquares(i + 1)

\* the population standard deviation of the sample is strictly below 10% of
\* its mean: with n distances of sum S and sum of squares Q the variance is
\* (n * Q - S * S) / (n * n) and the mean S / n, so the test is
\* 100 * (n * Q - S * S) < S * S
SampleDeviationBelowTenth ==
    100 * (Cardinality(PolicySample) * SampleSquares(1)
           - SampleSum(1) * SampleSum(1))
    < SampleSum(1) * SampleSum(1)

\* C12: the confidence of the estimator is low when the sample has fewer
\* than 3 distances, high when it has at least 5 whose population standard
\* deviation is strictly below 10% of their mean, and medium in every
\* other case.
C12_ConfidencePolicy ==
    estimate.done =>
        estimate.stats.confidence =
            IF Cardinality(PolicySample) < 3 THEN "low"
            ELSE IF Cardinality(PolicySample) >= 5
                    /\ SampleDeviationBelowTenth THEN "high"
            ELSE "medium"

\* C12 witness: five distances, four of 30 m and one of 20 m: their
\* deviation, 4 m, is not below 10% of their mean, 28 m, and the
\* confidence is medium.
C12_Witness ==
    /\ estimate.done
    /\ Cardinality(PolicySample) = 5
    /\ SampleCount(30 * Scale) = 4
    /\ SampleCount(20 * Scale) = 1
    /\ estimate.stats.confidence = "medium"

(***************************************************************************)
(* Properties of the interpolation (SpecInterpolation)                     *)
(***************************************************************************)
\* the positions of the snapshot with a usable distance
SnapshotUsable ==
    {i \in 1..Len(existingImages) :
        /\ existingImages[i].gsd.distance_to_blade > 0
        /\ existingImages[i].gsd.distance_confidence # "low"}

\* the sample the policy takes from the snapshot for a blade and a side
SnapshotSample(blade, side) ==
    LET same == {i \in SnapshotUsable : /\ existingImages[i].blade = blade
                                        /\ existingImages[i].side = side}
    IN  IF Cardinality(same) >= 3 THEN same ELSE SnapshotUsable

\* the distance of the sample S, a set of positions of the snapshot, that
\* stands at index floor(n/2), counted from 0, of the ascending sample
SnapshotMedian(S) ==
    CHOOSE d \in {existingImages[i].gsd.distance_to_blade : i \in S} :
        /\ Cardinality({i \in S : existingImages[i].gsd.distance_to_blade < d})
           <= Cardinality(S) \div 2
        /\ Cardinality({i \in S : existingImages[i].gsd.distance_to_blade <= d})
           >= (Cardinality(S) \div 2) + 1

\* the sum over S of the k-th power of the distance, counted in DistanceUnit
RECURSIVE SnapshotPowerSum(_, _)
SnapshotPowerSum(S, k) ==
    IF S = {} THEN 0
    ELSE LET i == CHOOSE j \in S : TRUE
             q == existingImages[i].gsd.distance_to_blade \div DistanceUnit
         IN  (IF k = 1 THEN q ELSE q * q) + SnapshotPowerSum(S \ {i}, k)

\* the confidence of the estimator for the sample S
SnapshotConfidence(S) ==
    IF Cardinality(S) < 3 THEN "low"
    ELSE IF /\ Cardinality(S) >= 5
            /\ 100 * (Cardinality(S) * SnapshotPowerSum(S, 2)
                      - SnapshotPowerSum(S, 1) * SnapshotPowerSum(S, 1))
               < SnapshotPowerSum(S, 1) * SnapshotPowerSum(S, 1)
         THEN "high"
    ELSE "medium"

OneLevelBelow(confidence) ==
    CASE confidence = "high" -> "medium"
      [] confidence = "medium" -> "low"
      [] confidence = "low" -> "low"

\* the source of a distance interpolated from k images
SourceOfSample(k) == "interpolated_from_" \o ToString(k) \o "_images"

\* the image took its distance from the interpolation
IsInterpolated(image) ==
    \E k \in 0..(MaxSeed + MaxFiles + 1) :
        image.gsd.distance_source = SourceOfSample(k)

\* C13: every image of the request whose distance comes from the
\* interpolation carries the median of the estimator's sample as distance,
\* the size of the sample in its source and a confidence exactly one level
\* below the estimator's (high -> medium, medium -> low, low -> low); no
\* interpolated image, processed or stored, has confidence high.
C13_InterpolationDowngraded ==
    /\ \A i \in 1..Len(processedImages) :
          IsInterpolated(processedImages[i]) =>
              LET img == processedImages[i]
                  S == SnapshotSample(img.blade, img.side)
              IN  /\ S # {}
                  /\ img.gsd.distance_to_blade = SnapshotMedian(S)
                  /\ img.gsd.distance_source = SourceOfSample(Cardinality(S))
                  /\ img.gsd.distance_confidence =
                        OneLevelBelow(SnapshotConfidence(S))
                  /\ img.gsd.distance_confidence # "high"
    /\ \A i \in 1..Len(stored) :
          IsInterpolated(stored[i]) =>
              stored[i].gsd.distance_confidence # "high"

\* C13 witness: five stored images at 30 m and 28 m give the estimator the
\* confidence high; the file without a distance was stored with the
\* median, 30 m, the source of five images and the confidence medium.
C13_Witness ==
    /\ pc = "done"
    /\ Len(existingImages) = 5
    /\ Len(stored) = 6
    /\ \E i \in 1..Len(stored) :
          /\ stored[i].gsd.distance_source = "interpolated_from_5_images"
          /\ stored[i].gsd.distance_confidence = "medium"
          /\ stored[i].gsd.distance_to_blade = 30 * Scale
          /\ stored[i] = processedImages[1]
    /\ \E i \in 1..Len(existingImages) :
          existingImages[i].gsd.distance_to_blade = 28 * Scale

\* the file brings no distance of its own: no distance tag and no manual
\* distance
WithoutDistance(file) ==
    /\ file.io = "ok"
    /\ DistanceTags(file.exif) = {}
    /\ ~(file.metadata.present /\ file.metadata.manualDistance > 0)

\* the blade of a file of InterpolationFiles (the side is TE for all)
BladeOfFile(file) ==
    IF file.metadata.present THEN file.metadata.blade
    ELSE IF file.name = "DJI_0002_B_TE_.JPG" THEN "B" ELSE "A"

\* an iteration of the loop leaves the snapshot and the stored collection
\* alone, and what a file without a distance gets is decided by the
\* snapshot and the file alone: an error when the snapshot holds no usable
\* distance, whatever the batch has processed so far, and else the median
\* and the size of the snapshot's sample
InterpolatesFromSnapshot ==
    pc = "loop" /\ fileIndex' = fileIndex + 1 =>
        /\ existingImages' = existingImages
        /\ stored' = stored
        /\ WithoutDistance(lastFile') =>
              LET S == SnapshotSample(BladeOfFile(lastFile'), "TE")
                  n == Len(processedImages')
              IN  IF S = {}
                  THEN /\ processedImages' = processedImages
                       /\ errors' = Append(errors, "unresolved_distance")
                  ELSE \/ /\ processedImages' = processedImages
                          /\ Len(errors') = Len(errors) + 1
                       \/ /\ n = Len(processedImages) + 1
                          /\ errors' = errors
                          /\ processedImages'[n].gsd.distance_to_blade =
                                SnapshotMedian(S)
                          /\ processedImages'[n].gsd.distance_source =
                                SourceOfSample(Cardinality(S))

\* C14: within one request the interpolation of every file uses the
\* snapshot loaded before the first file: inside the loop the snapshot is
\* the stored collection, no iteration changes either, and the distance of
\* a file without one is decided by the snapshot alone, never by an image
\* the same batch processed earlier, hence not by the order of the files.
C14_SnapshotPerRequest ==
    /\ [](pc = "loop" => existingImages = stored)
    /\ [][InterpolatesFromSnapshot]_vars

\* C14 witness: nothing was stored; the first file of the batch was
\* processed with its manual distance of 30 m, and the second, without a
\* distance, was rejected all the same.
C14_Witness ==
    /\ pc = "loop"
    /\ existingImages = << >>
    /\ fileIndex = 2
    /\ Len(processedImages) = 1
    /\ processedImages[1].gsd.distance_source = "manual_input"
    /\ processedImages[1].gsd.distance_confidence = "high"
    /\ WithoutDistance(lastFile)
    /\ errors = << "unresolved_distance" >>

(***************************************************************************)
(* Properties of the blade geometry (SpecBlade)                            *)
(***************************************************************************)
\* the altitudes above the ground of the images of the set
BladeAltitudes ==
    {bladeImages[i].gsd.flight_height : i \in
        {j \in 1..Len(bladeImages) :
            bladeImages[j].hasGsd /\ bladeImages[j].gsd.flight_height > 0}}

\* how many images of the set stand above the ground
BladeCount ==
    Cardinality({j \in 1..Len(bladeImages) :
                    bladeImages[j].hasGsd
                    /\ bladeImages[j].gsd.flight_height > 0})

HighestAltitude == CHOOSE a \in BladeAltitudes : \A b \in BladeAltitudes : b <= a
LowestAltitude == CHOOSE a \in BladeAltitudes : \A b \in BladeAltitudes : a <= b

\* C15: for every set with an altitude > 0, calculateBladeMetrics returns
\* lengthMeters = altitudeRange = highest - lowest positive altitude, a
\* lengthPixels in [200, 500] for every pixelsPerMeter, and averageSpacing =
\* altitudeRange / (k - 1) for k > 1 positive altitudes and 0 otherwise;
\* the images without a positive altitude change none of them.
C15_MetricsOfPositiveAltitudes ==
    bladeCall.fn = "calculateBladeMetrics" /\ BladeAltitudes # {} =>
        LET m == bladeCall.metrics
            range == HighestAltitude - LowestAltitude
        IN  /\ m.lengthMeters = range
            /\ m.altitudeRange = range
            /\ m.minAltitude = LowestAltitude
            /\ m.maxAltitude = HighestAltitude
            /\ m.lengthPixels >= 200 * Scale
            /\ m.lengthPixels <= 500 * Scale
            /\ m.averageSpacing =
                  IF BladeCount > 1 THEN range \div (BladeCount - 1) ELSE 0

\* C15 witness: altitudes 50 and 10 m after an image 5 m below the ground,
\* at 100 pixels per metre: the length is 40 m, 500 pixels, the spacing
\* 40 m.
C15_Witness ==
    /\ bladeCall.fn = "calculateBladeMetrics"
    /\ bladeImages = << BladeImage(0 - 5 * Scale), BladeImage(50 * Scale),
                        BladeImage(10 * Scale) >>
    /\ bladeCall.metrics.pixelsPerMeter = 100 * Scale
    /\ bladeCall.metrics.lengthMeters = 40 * Scale
    /\ bladeCall.metrics.lengthPixels = 500 * Scale
    /\ bladeCall.metrics.averageSpacing = 40 * Scale

\* the statement of C16 as it stands: a set that is empty or has no
\* altitude > 0 gets metrics that are all zero, totalImages included.
\* calculateBladeMetrics contradicts it for a non-empty set.
C16_DegenerateAllZero ==
    bladeCall.fn = "calculateBladeMetrics" /\ BladeAltitudes = {} =>
        /\ bladeCall.metrics.lengthMeters = 0
        /\ bladeCall.metrics.lengthPixels = 0
        /\ bladeCall.metrics.minAltitude = 0
        /\ bladeCall.metrics.maxAltitude = 0
        /\ bladeCall.metrics.altitudeRange = 0
        /\ bladeCall.metrics.totalImages = 0
        /\ bladeCall.metrics.averageSpacing = 0

\* C16 as amended: a set that is empty or has no altitude > 0 gets
\* lengthMeters, lengthPixels, minAltitude, maxAltitude, altitudeRange and
\* averageSpacing all 0, and totalImages the number of images of the set
\* (0 for the empty set).
C16_DegenerateMetrics ==
    bladeCall.fn = "calculateBladeMetrics" /\ BladeAltitudes = {} =>
        /\ bladeCall.metrics.lengthMeters = 0
        /\ bladeCall.metrics.lengthPixels = 0
        /\ bladeCall.metrics.minAltitude = 0
        /\ bladeCall.metrics.maxAltitude = 0
        /\ bladeCall.metrics.altitudeRange = 0
        /\ bladeCall.metrics.totalImages = Len(bladeImages)
        /\ bladeCall.metrics.averageSpacing = 0

\* C16 witness: three images, without gsd, at altitude 0 and below the
\* ground: the metrics are zero and totalImages is 3.
C16_Witness ==
    /\ bladeCall.fn = "calculateBladeMetrics"
    /\ bladeImages = << NoGsdImage, BladeImage(0), BladeImage(0 - 5 * Scale) >>
    /\ bladeCall.metrics.totalImages = 3
    /\ bladeCall.metrics.lengthPixels = 0

\* the pairs of neighbouring altitudes of the set: two positive altitudes
\* with none of the set between them
NeighbourAltitudes ==
    {p \in BladeAltitudes \X BladeAltitudes :
        /\ p[1] < p[2]
        /\ \A c \in BladeAltitudes : ~(p[1] < c /\ c < p[2])}

\* the neighbours more than 2.5 average spacings apart:
\* (b - a) > 2.5 * range / (k - 1), multiplied by 2 * (k - 1)
WideNeighbours ==
    {p \in NeighbourAltitudes :
        2 * (p[2] - p[1]) * (BladeCount - 1)
            > 5 * (HighestAltitude - LowestAltitude)}

ReportedGaps ==
    {bladeCall.coverage.gaps[i] : i \in 1..Len(bladeCall.coverage.gaps)}

\* the positive altitudes of the set are evenly spaced
EvenlySpaced ==
    \A p, q \in NeighbourAltitudes : p[2] - p[1] = q[2] - q[1]

NoRepeatedAltitude == Cardinality(BladeAltitudes) = BladeCount

\* C17: getBladeCoverage reports as gaps exactly the pairs of consecutive
\* sorted positive altitudes more than 2.5 average spacings
\* (range / (k - 1)) apart, each once, with start, end and size = end -
\* start; evenly spaced altitudes give no gap, and so do 10, 15, 50.
C17_GapsAboveThreshold ==
    bladeCall.fn = "getBladeCoverage" =>
        /\ ReportedGaps =
              {[start |-> p[1], end |-> p[2], size |-> p[2] - p[1]] :
                  p \in WideNeighbours}
        /\ Len(bladeCall.coverage.gaps) = Cardinality(WideNeighbours)
        /\ EvenlySpaced /\ NoRepeatedAltitude =>
              bladeCall.coverage.gaps = << >>
        /\ BladeAltitudes = {10 * Scale, 15 * Scale, 50 * Scale}
           /\ BladeCount = 3 => bladeCall.coverage.gaps = << >>

\* C17 witness: ten images 5 m apart from 10 m to 55 m and one at 400 m:
\* the one gap from 55 m to 400 m is reported.
C17_Witness ==
    /\ bladeCall.fn = "getBladeCoverage"
    /\ bladeImages = Descent(10, 10 * Scale, 5 * Scale)
                         \o << BladeImage(400 * Scale) >>
    /\ bladeCall.coverage.gaps =
          << [start |-> 55 * Scale, end |-> 400 * Scale,
              size |-> 345 * Scale] >>

\* clamp(floor(k / 2), 5, 20) for the k positive altitudes of the set
ExpectedBins ==
    IF BladeCount \div 2 < 5 THEN 5
    ELSE IF BladeCount \div 2 > 20 THEN 20 ELSE BladeCount \div 2

\* the images of the set whose positive altitude a satisfies
\* binStart <= a < binEnd for the i-th of n equal bins over [min, max]
\* (i from 1): (i - 1) * range <= (a - min) * n < i * range
ImagesInBin(i, n) ==
    {j \in 1..Len(bladeImages) :
        /\ bladeImages[j].hasGsd
        /\ bladeImages[j].gsd.flight_height > 0
        /\ (bladeImages[j].gsd.flight_height - LowestAltitude) * n
              >= (i - 1) * (HighestAltitude - LowestAltitude)
        /\ (bladeImages[j].gsd.flight_height - LowestAltitude) * n
              < i * (HighestAltitude - LowestAltitude)}

\* C18: for every set with an altitude > 0 the density map has exactly
\* clamp(floor(k / 2), 5, 20) bins of equal width (max - min) / binCount
\* over [min, max] (bin i is centred i - 1/2 widths above min, to the
\* hundredth), and bin i records the number of positive altitudes a with
\* binStart_i <= a < binEnd_i.
C18_DensityMap ==
    bladeCall.fn = "getBladeCoverage" /\ BladeAltitudes # {} =>
        /\ Len(bladeCall.coverage.densityMap) = ExpectedBins
        /\ \A i \in 1..ExpectedBins :
              /\ bladeCall.coverage.densityMap[i].imageCount
                    = Cardinality(ImagesInBin(i, ExpectedBins))
              /\ bladeCall.coverage.densityMap[i].altitude
                    = LowestAltitude
                      + ((2 * i - 1) * (HighestAltitude - LowestAltitude))
                        \div (2 * ExpectedBins)

\* C18 witness: 44 images 5 m apart from 10 m to 225 m: 20 bins of
\* 10.75 m, three images in the first, two in the last (the image at the
\* maximum is in none).
C18_Witness ==
    /\ bladeCall.fn = "getBladeCoverage"
    /\ bladeImages = Descent(44, 10 * Scale, 5 * Scale)
    /\ Len(bladeCall.coverage.densityMap) = 20
    /\ bladeCall.coverage.densityMap[1].imageCount = 3
    /\ bladeCall.coverage.densityMap[20].imageCount = 2

RECURSIVE SumOver(_)
SumOver(S) ==
    IF S = {} THEN 0
    ELSE LET p == CHOOSE q \in S : TRUE
         IN  (p[2] - p[1]) + SumOver(S \ {p})

\* 100 - (sum of the gap sizes / range) * 50 - 30 for fewer than 0.1 images
\* per metre + 10 for 20 or more positive altitudes, in hundredths; no gap
\* penalty and a density of 0 for a range of 0
ExpectedScore ==
    100 * Scale
    - (IF HighestAltitude > LowestAltitude
       THEN (SumOver(WideNeighbours) * 50 * Scale)
            \div (HighestAltitude - LowestAltitude)
       ELSE 0)
    - (IF HighestAltitude > LowestAltitude
          /\ BladeCount * Scale * 10 >= HighestAltitude - LowestAltitude
       THEN 0 ELSE 30 * Scale)
    + (IF BladeCount >= 20 THEN 10 * Scale ELSE 0)

C20_PositionWithinBlade ==
    bladeCall.fn = "calculateImagePosition" =>
        /\ bladeCall.position.relativePosition >= 0
        /\ bladeCall.position.relativePosition <= Scale
        /\ bladeCall.position.percentageFromBase >= 0
        /\ bladeCall.position.percentageFromBase <= 100 * Scale

\* from one call of calculateImagePosition to the next on the same set, an
\* image at least as high gets a pixel offset at most as large
HigherIsNotLower ==
    /\ bladeCall.fn = "calculateImagePosition"
    /\ bladeCall'.fn = "calculateImagePosition"
    /\ bladeCall.image.hasGsd /\ bladeCall'.image.hasGsd
    /\ bladeCall'.image.gsd.flight_height >= bladeCall.image.gsd.flight_height
    => bladeCall'.position.positionPixels <= bladeCall.position.positionPixels

\* the statement of C21 as it stands: the pixel offset is non-increasing in
\* the altitude and 4 <= positionPixels <= lengthPixels - 4 for every
\* metrics, the degenerate ones included.  The all-zero metrics contradict
\* the upper limit.
C21_FourPixelsFromBothEdges ==
    /\ [](bladeCall.fn = "calculateImagePosition" =>
            /\ bladeCall.position.positionPixels >= 4 * Scale
            /\ bladeCall.position.positionPixels
                  <= bladeCall.metrics.lengthPixels - 4 * Scale)
    /\ [][HigherIsNotLower]_vars

\* C21 as amended: the pixel offset is measured from the visual top and is
\* non-increasing in the altitude; 4 <= positionPixels <= lengthPixels - 4
\* for the metrics of every set with a positive altitude, and
\* positionPixels = 4 for the all-zero metrics (lengthPixels 0).
C21_PixelPosition ==
    /\ [](bladeCall.fn = "calculateImagePosition" =>
            /\ bladeCall.position.positionPixels >= 4 * Scale
            /\ BladeAltitudes # {} =>
                  bladeCall.position.positionPixels
                      <= bladeCall.metrics.lengthPixels - 4 * Scale
            /\ BladeAltitudes = {} =>
                  /\ bladeCall.metrics.lengthPixels = 0
                  /\ bladeCall.position.positionPixels = 4 * Scale)
    /\ [][HigherIsNotLower]_vars

\* C21 witness: in the set 10, 15, 50 m (200 pixels) the image at 15 m is
\* 175 pixels from the top, between the two limits.
C21_Witness ==
    /\ bladeCall.fn = "calculateImagePosition"
    /\ BladeAltitudes = {10 * Scale, 15 * Scale, 50 * Scale}
    /\ bladeCall.image = BladeImage(15 * Scale)
    /\ bladeCall.metrics.lengthPixels = 200 * Scale
    /\ bladeCall.position.positionPixels = 175 * Scale

(***************************************************************************)
(* Properties of the ruler intervals (SpecRuler)                           *)
(***************************************************************************)
\* the seven triples of the table, with the band of effective GSDs
\* (above, up to) that selects each; 0 stands for no upper limit
RulerTable ==
    { << 100, 0, 500 * Scale, 1000 * Scale, 250 * Scale >>,
      << 50, 100, 100 * Scale, 500 * Scale, 50 * Scale >>,
      << 20, 50, 50 * Scale, 200 * Scale, 25 * Scale >>,
      << 10, 20, 20 * Scale, 100 * Scale, 10 * Scale >>,
      << 5, 10, 10 * Scale, 50 * Scale, 5 * Scale >>,
      << 1, 5, 5 * Scale, 20 * Scale, 2 * Scale >>,
      << 0, 1, Scale, 10 * Scale, 50 >> }

\* the effective GSD of the call, gsd / (scaleFactor * zoom), is above a
\* and at most b
EffectiveWithin(a, b) ==
    /\ bladeCall.gsdCmPerPixel * ZoomUnit * FactorUnit
          > a * Scale * bladeCall.scaleFactor * bladeCall.zoom
    /\ b # 0 =>
          bladeCall.gsdCmPerPixel * ZoomUnit * FactorUnit
              <= b * Scale * bladeCall.scaleFactor * bladeCall.zoom

\* px is cm / effective GSD, to the hundredth of a pixel
IsPixelsOf(px, cm) ==
    /\ px * bladeCall.gsdCmPerPixel * ZoomUnit * FactorUnit
          <= cm * Scale * bladeCall.scaleFactor * bladeCall.zoom
    /\ (px + 1) * bladeCall.gsdCmPerPixel * ZoomUnit * FactorUnit
          > cm * Scale * bladeCall.scaleFactor * bladeCall.zoom

\* from one call to the next, a larger effective GSD selects intervals at
\* least as large
LargerGsdLargerIntervals ==
    /\ bladeCall.fn = "calculateRulerIntervals"
    /\ bladeCall'.fn = "calculateRulerIntervals"
    /\ bladeCall'.gsdCmPerPixel * bladeCall.scaleFactor * bladeCall.zoom
          >= bladeCall.gsdCmPerPixel * bladeCall'.scaleFactor * bladeCall'.zoom
    => /\ bladeCall'.result.rulerIntervalCm >= bladeCall.result.rulerIntervalCm
       /\ bladeCall'.result.majorIntervalCm >= bladeCall.result.majorIntervalCm
       /\ bladeCall'.result.minorIntervalCm >= bladeCall.result.minorIntervalCm

\* C22: for gsd, zoom and scaleFactor > 0, calculateRulerIntervals takes
\* effectiveGsd = gsd / (scaleFactor * zoom) and returns the one of the seven
\* triples whose band holds effectiveGsd, with minor < ruler < major, each
\* pixel interval the cm interval divided by effectiveGsd, and a larger
\* effectiveGsd never selects a smaller interval.
C22_RulerIntervals ==
    /\ [](bladeCall.fn = "calculateRulerIntervals" =>
            /\ bladeCall.result.effectiveGsdCmPerPixel.num
                  = bladeCall.gsdCmPerPixel * ZoomUnit * FactorUnit
            /\ bladeCall.result.effectiveGsdCmPerPixel.den
                  = Scale * bladeCall.scaleFactor * bladeCall.zoom
            /\ \E t \in RulerTable :
                  /\ EffectiveWithin(t[1], t[2])
                  /\ bladeCall.result.rulerIntervalCm = t[3]
                  /\ bladeCall.result.majorIntervalCm = t[4]
                  /\ bladeCall.result.minorIntervalCm = t[5]
            /\ bladeCall.result.minorIntervalCm
                  < bladeCall.result.rulerIntervalCm
            /\ bladeCall.result.rulerIntervalCm
                  < bladeCall.result.majorIntervalCm
            /\ IsPixelsOf(bladeCall.result.rulerIntervalPx,
                          bladeCall.result.rulerIntervalCm)
            /\ IsPixelsOf(bladeCall.result.majorIntervalPx,
                          bladeCall.result.majorIntervalCm)
            /\ IsPixelsOf(bladeCall.result.minorIntervalPx,
                          bladeCall.result.minorIntervalCm))
    /\ [][LargerGsdLargerIntervals]_vars

\* C22 witness: 1 cm per pixel at zoom 1 and scale factor 1 is on the limit
\* of the last band: 1 / 10 / 0.5 cm, that is 1, 10 and 0.5 pixels.
C22_Witness ==
    /\ bladeCall.fn = "calculateRulerIntervals"
    /\ bladeCall.gsdCmPerPixel = Scale
    /\ bladeCall.zoom = ZoomUnit
    /\ bladeCall.scaleFactor = FactorUnit
    /\ bladeCall.result.rulerIntervalCm = Scale
    /\ bladeCall.result.majorIntervalPx = 10 * Scale
    /\ bladeCall.result.minorIntervalPx = 50

RECURSIVE BinTotal(_)
BinTotal(i) ==
    IF i = 0 THEN 0
    ELSE bladeCall.coverage.densityMap[i].imageCount + BinTotal(i - 1)

\* C28: for every set with an altitude > 0, the imageCount values of the
\* bins sum to the number of images with an altitude > 0, the image at the
\* maximum and the sets of equal altitudes included.
\* getBladeCoverage contradicts it: no bin counts the maximum altitude.
C28_EveryImageCounted ==
    bladeCall.fn = "getBladeCoverage" /\ BladeAltitudes # {} =>
        BinTotal(Len(bladeCall.coverage.densityMap)) = BladeCount

RECURSIVE ReportedTotal(_)
ReportedTotal(i) ==
    IF i = 0 THEN 0
    ELSE bladeCall.coverage.gaps[i].size + ReportedTotal(i - 1)

\* C29: getBladeCoverage reports no gap for a set with fewer than 4 positive
\* altitudes (with 1, 2 or 3 of them no two neighbours are more than 2
\* average spacings apart), and for every set the sizes of the reported gaps
\* sum to at most the altitude range.
C29_NoGapBelowFour ==
    bladeCall.fn = "getBladeCoverage" =>
        /\ BladeCount < 4 =>
              /\ bladeCall.coverage.gaps = << >>
              /\ BladeCount > 1 =>
                    \A p \in NeighbourAltitudes :
                        (p[2] - p[1]) * (BladeCount - 1)
                            <= 2 * (HighestAltitude - LowestAltitude)
        /\ BladeAltitudes # {} =>
              ReportedTotal(Len(bladeCall.coverage.gaps))
                  <= HighestAltitude - LowestAltitude
        /\ BladeAltitudes = {} => bladeCall.coverage.gaps = << >>

\* C29 witness: the three altitudes 10, 15 and 140 m: the step of 125 m is
\* 1.92 average spacings and no gap is reported.
C29_Witness ==
    /\ bladeCall.fn = "getBladeCoverage"
    /\ bladeImages = << BladeImage(10 * Scale), BladeImage(15 * Scale),
                        BladeImage(140 * Scale) >>
    /\ bladeCall.coverage.gaps = << >>

(***************************************************************************)
(* Properties of the manual distance and of the stored collection (Spec)   *)
(***************************************************************************)
\* the metadata of the file carries a manual distance within [0.5, 100] m
HasManualDistance(file) ==
    /\ file.metadata.present
    /\ file.metadata.manualDistance >= Scale \div 2
    /\ file.metadata.manualDistance <= 100 * Scale

\* an iteration of the loop on a file with a manual distance either yields
\* the image with that distance, source manual_input and confidence high,
\* or fails for another reason than the manual distance
ManualDistanceHonoured ==
    /\ pc = "loop"
    /\ fileIndex' = fileIndex + 1
    /\ lastFile'.io = "ok"
    /\ HasManualDistance(lastFile')
    => \/ /\ Len(processedImages') = Len(processedImages) + 1
          /\ errors' = errors
          /\ LET gsd == processedImages'[Len(processedImages')].gsd
             IN  /\ gsd.distance_to_blade = lastFile'.metadata.manualDistance
                 /\ gsd.distance_source = "manual_input"
                 /\ gsd.distance_confidence = "high"
       \/ /\ processedImages' = processedImages
          /\ Len(errors') = Len(errors) + 1
          /\ errors'[Len(errors')] # "manual_conflict"

\* C25: a file whose upload metadata carries a manual distance within
\* [0.5, 100] is ingested with that distance, the source manual_input and
\* the confidence high, whether or not its EXIF metadata resolves a distance;
\* the manual distance never causes the rejection of the file.
\* POST contradicts it when the EXIF metadata resolves a distance.
C25_ManualDistanceOverrides == [][ManualDistanceHonoured]_vars

(***************************************************************************)
(* Properties of overlapping requests (SpecConcurrent)                     *)
(***************************************************************************)
CountIn(images, img) ==
    Cardinality({i \in 1..Len(images) : images[i] = img})

ImagesOf(images) == {images[i] : i \in 1..Len(images)}

\* C26: when two overlapping requests have both completed successfully, the
\* stored collection holds the images of both: no acknowledged image is lost
\* to the write of the other request.
\* POST contradicts it: each request writes its own snapshot back.
C26_NoLostUpload ==
    /\ requests # << >>
    /\ \A r \in Requests :
          requests[r].pc = "done" /\ requests[r].response.status = 200
    => \A img \in ImagesOf(stored)
                  \cup UNION {ImagesOf(requests[r].processedImages) :
                                 r \in Requests} :
          CountIn(stored, img)
              = CountIn(requests[1].processedImages, img)
                + CountIn(requests[2].processedImages, img)

\* the step ends request r
Finishes(r) == requests[r].pc = "loop" /\ requests'[r].pc = "done"

\* a request that ends with processed images adds them to the stored
\* collection and keeps every stored record, in ascending flight_height; a
\* request that ends without one leaves the collection and answers 400
OnlyAppends ==
    requests # << >> =>
        \A r \in Requests :
            Finishes(r) =>
                IF Len(requests[r].processedImages) = 0
                THEN stored' = stored /\ requests'[r].response.status = 400
                ELSE /\ requests'[r].response.status = 200
                     /\ \A img \in ImagesOf(stored) \cup ImagesOf(stored') :
                           CountIn(stored', img)
                               = CountIn(stored, img)
                                 + CountIn(requests[r].processedImages, img)
                     /\ \A i \in 1..(Len(stored') - 1) :
                           stored'[i].gsd.flight_height
                               <= stored'[i + 1].gsd.flight_height

\* C27: a successful upload only appends: the stored collection afterwards
\* is every previously stored record unchanged plus the newly processed
\* ones, in ascending gsd.flight_height; an upload without a processed file
\* leaves the collection unchanged and is answered with an error.
\* The write of an overlapping request (C26) contradicts it.
C27_UploadOnlyAppends == [][OnlyAppends]_vars

(***************************************************************************)
(* Properties of the measurements (SpecMeasure)                            *)
(***************************************************************************)
\* the altitude the overlay takes for the image of the call: its
\* flight_height, or the lowest positive altitude of the filter (0 when
\* there is none) when it has no height
BaseAltitude ==
    IF measureCall.image.hasGsd /\ measureCall.image.gsd.flight_height # 0
    THEN measureCall.image.gsd.flight_height
    ELSE IF BladeAltitudes = {} THEN 0 ELSE LowestAltitude

\* C23: whenever a blade context is supplied, bladePercentage is a number
\* in [0, 100] for every pair of points and every context, a blade of
\* length 0 and a midpoint on row 0 included, and the altitude is
\* currentAltitude + (midpoint y * gsdCmPerPixel) / 100.
\* calculateDistance contradicts it: 0 / 0 gives NaN.
C23_BladePercentage ==
    /\ measureCall.fn = "calculateDistance"
    /\ measureCall.result.absolutePosition.present
    => /\ ~IsNaN(measureCall.result.absolutePosition.bladePercentage)
       /\ measureCall.result.absolutePosition.bladePercentage >= 0
       /\ measureCall.result.absolutePosition.bladePercentage <= 100 * Scale
       /\ measureCall.result.absolutePosition.altitude
             = BaseAltitude * 2 * Scale
               + (measureCall.start.y + measureCall.end.y)
                 * measureCall.gsdCmPerPixel

(***************************************************************************)
(* Properties of the viewer (SpecViewer)                                   *)
(***************************************************************************)
MeasurementIds(list) == [k \in 1..Len(list) |-> list[k].id]

\* the measurements shown for a loaded image are the stored ones
ShownIsStored ==
    \A id \in ImageIds(allImages) :
        MeasurementIds(measurements[id]) = MeasurementIds(localStorage[id])

\* the squared length in pixels of a measurement
SquaredPixels(m) ==
    (m.end.x - m.start.x) * (m.end.x - m.start.x)
        + (m.end.y - m.start.y) * (m.end.y - m.start.y)

\* the step is a mouse-up that ends a drawing on image id and appends the
\* entry m to its list
EndsDrawingWith(id, m) ==
    /\ lastEvent' = "handleMouseUp"
    /\ isDrawing /\ ~isDrawing'
    /\ OverlayMounted /\ currentImage.id = id
    /\ currentImage.gsd.gsd_cm_per_pixel > 0
    /\ m.gsd_used = currentImage.gsd.gsd_cm_per_pixel
    /\ SquaredPixels(m) > 2 * 2
    /\ m.distance
         = (SquareRoot(SquaredPixels(m) * Scale * Scale) * m.gsd_used)
               \div Scale

\* new is old with some entries left out
EntriesRemoved(old, new) ==
    /\ Len(new) < Len(old)
    /\ \A k \in 1..Len(new) : \E j \in 1..Len(old) : new[k] = old[j]

ExplicitRemovals == {"deleteMeasurement", "clearAllMeasurements", "resetView"}

ListChangesByUser(id) ==
    MeasurementIds(localStorage'[id]) # MeasurementIds(localStorage[id])
    => \/ /\ Len(localStorage'[id]) = Len(localStorage[id]) + 1
          /\ MeasurementIds(SubSeq(localStorage'[id], 1,
                                   Len(localStorage[id])))
               = MeasurementIds(localStorage[id])
          /\ EndsDrawingWith(id, localStorage'[id][Len(localStorage'[id])])
       \/ /\ lastEvent' \in ExplicitRemovals
          /\ OverlayMounted /\ currentImage.id = id
          /\ EntriesRemoved(MeasurementIds(localStorage[id]),
                            MeasurementIds(localStorage'[id]))

\* C24: over any sequence of viewer events the measurement list of an
\* image gains an entry only on a mouse-up that ends a drawing longer than
\* 2 px on an image with GSD > 0 (exactly one entry, with distance = pixel
\* distance * GSD) and loses entries only through delete, clear or reset;
\* mouse-leave, short drags, navigation, filter changes, refresh and
\* reload never add or remove a measurement: the list shown for a loaded
\* image is always the stored list.
C24_MeasurementsChangeByUser ==
    /\ []ShownIsStored
    /\ [][\A id \in AllImageIds : ListChangesByUser(id)]_vars

\* a measurement made before the data was fetched again is still shown
C24_Witness ==
    /\ lastEvent = "fetchTurbineData"
    /\ \E id \in ImageIds(allImages) : Len(measurements[id]) > 0

\* C30: after any interleaving of navigateToImage, goToPrevious, goToNext,
\* animation frames, handleFilterChange and refreshData, currentImageIndex
\* satisfies 0 <= currentImageIndex < filteredImages.length when the
\* filtered set is non-empty and is 0 when it is empty.
\* The viewer hook contradicts it: a pending animation writes its index
\* after the filter or the data changed.
C30_IndexWithinFilter ==
    IF FilteredImages(allImages, currentFilter) = << >>
    THEN currentImageIndex = 0
    ELSE /\ 0 <= currentImageIndex
         /\ currentImageIndex < Len(FilteredImages(allImages, currentFilter))

====
